---- MODULE Spec2Model ----
(***************************************************************************)
(* A model of docstr_coverage: the result model of result_collection.py,   *)
(* the syntax-tree visitor of visitor.py, IgnoreConfig of ignore_config.py *)
(* and get_docstring_coverage of coverage.py.  analyze, which feeds the    *)
(* visitor's result through the ignore decision into the result model, is  *)
(* not part of the sources and is modelled after its specification.        *)
(*                                                                         *)
(* Python objects are modelled by value plus an instance number where      *)
(* identity matters (File instances live in heap, a File is named by its   *)
(* index).  None is the model value None.  Floats are exact rationals      *)
(* [num, den] in lowest terms.  A source file is its syntax tree together  *)
(* with the physical lines above each definition, from which the token     *)
(* stream is derived; node.lineno is the line of the class or def keyword, *)
(* as ast gives it from Python 3.8 on.                                     *)
(*                                                                         *)
(* Spec is a ResultCollection driven directly, SpecAnalyze a run of        *)
(* analyze, SpecCoverage a run of get_docstring_coverage.                  *)
(***************************************************************************)
EXTENDS Integers, Sequences, FiniteSets, TLC

VARIABLES
    files,      \* ResultCollection._files: path -> File instance (0: no entry)
    keys,       \* insertion order of the keys of ResultCollection._files
    heap,       \* the File instances ever constructed, by instance number
    hit,        \* history: some get_file call found its path registered
    requested,  \* history: the paths get_file was called with
    got,        \* history: path -> the instances get_file returned for it
    calls,      \* history: per File instance, the collect_* calls made on it
    filenames,  \* the list of paths given to analyze / get_docstring_coverage
    fs,         \* the file system: path -> syntax tree of the file
    analyze_config, \* the IgnoreConfig given to analyze
    coverage_flags, \* the skip_* arguments given to get_docstring_coverage
    fidx,       \* the position of the loop over filenames
    pc,         \* the position of the run within its code
    recorded,   \* analyze: how many nodes of the visitor's result are recorded
    frames,     \* the calls of generic_visit in progress, innermost last
    tree,       \* DocStringCoverageVisitor.tree, as indices into out (0: module)
    out,        \* the node tuples the visitor has created, in creation order
    module_entry,   \* the module tuple of the visitor: has_doc, is_empty
    symbol_count,   \* DocStringCoverageVisitor.symbol_count
    total_docs_needed,   \* locals of get_docstring_coverage
    total_docs_covered,
    empty_files,
    file_results,        \* the dict file_results: a function on its keys
    total_results,
    grade,
    args,                \* the arguments of a call of a single function
    ret                  \* what the call returned or raised

\* the result model
rvars == <<files, keys, heap, hit, requested, got, calls>>
\* the inputs of a run
ivars == <<filenames, fs, analyze_config, coverage_flags>>
\* the visitor
vvars == <<frames, tree, out, module_entry, symbol_count>>
\* get_docstring_coverage
lvars == <<total_docs_needed, total_docs_covered, empty_files, file_results,
           total_results, grade>>
\* everything but the result model
\* a call of a single function
cvars == <<args, ret>>
avars == <<ivars, cvars, fidx, pc, recorded, vvars, lvars>>

vars == <<rvars, avars>>

----------------------------------------------------------------------------
(* Bounds of the model *)

MaxRecords == 2     \* total number of collect_* calls in a run
MaxNodes == 3       \* compound statements of a file
MaxLinesAbove == 2  \* physical lines above a definition
MaxFiles == 2       \* length of the list of file names

None == "None"

\* the file paths of a run
Paths == {"a.py", "b.py"}

\* identifiers passed to collect_docstring
NodeIdentifiers == {"foo"}

\* values passed as ignore_reason: None, the empty string, a reason
IgnoreReasons == {None, "", "ignored"}

FileStatus == {"ANALYZED", "EMPTY"}

----------------------------------------------------------------------------
(* Python helpers *)

\* truth value of an Optional[str] in a condition
Truthy(x) == x # None /\ x # ""

RECURSIVE Gcd(_, _)
Gcd(a, b) == IF b = 0 THEN a ELSE Gcd(b, a % b)

\* a / b for b # 0, exactly
TrueDiv(a, b) == LET g == Gcd(a, b) IN [num |-> a \div g, den |-> b \div g]

\* the float literal 100.0
Float100 == [num |-> 100, den |-> 1]

----------------------------------------------------------------------------
(* result_collection.py: ExpectedDocstring, counts *)

ExpectedDocstring(node_identifier, has_docstring, ignore_reason) ==
    [node_identifier |-> node_identifier,
     has_docstring |-> has_docstring,
     ignore_reason |-> ignore_reason]

\* FileCount.__init__
FileCount ==
    [kind |-> "FileCount", needed |-> 0, found |-> 0, missing |-> 0,
     is_empty |-> FALSE]

found_needed_docstr(count) ==
    [count EXCEPT !.needed = @ + 1, !.found = @ + 1]

\* mutant of missed_needed_docstring: needed is not incremented
missed_needed_docstring_missing_only(count) == [count EXCEPT !.missing = @ + 1]

missed_needed_docstring(count) ==
    [count EXCEPT !.needed = @ + 1, !.missing = @ + 1]

found_empty_file(count) ==
    [count EXCEPT !.is_empty = TRUE]

\* AggregatedCount.__init__
AggregatedCount(num_files, num_empty_files, needed, found, missing) ==
    [kind |-> "AggregatedCount", needed |-> needed, found |-> found,
     missing |-> missing, num_files |-> num_files,
     num_empty_files |-> num_empty_files]

\* mutant of coverage: the vacuous case yields 0
coverage_zero(count) ==
    IF count.needed = 0 THEN [num |-> 0, den |-> 1]
    ELSE TrueDiv(count.found * 100, count.needed)

\* _DocstrCount.coverage: the division raises ZeroDivisionError iff needed = 0
coverage(count) ==
    IF count.needed = 0 THEN Float100
    ELSE TrueDiv(count.found * 100, count.needed)

\* mutant of __add__: the empty-file mark of a FileCount replaces the sum
AggregatedCount__add__dropempty(self, other) ==
    IF other.kind = "AggregatedCount"
    THEN AggregatedCount(self.num_files + other.num_files,
                         self.num_empty_files + other.num_empty_files,
                         self.needed + other.needed,
                         self.found + other.found,
                         self.missing)
    ELSE AggregatedCount(self.num_files + 1,
                         IF other.is_empty THEN 1 ELSE 0,
                         self.needed + other.needed,
                         self.found + other.found,
                         self.missing + other.missing)

\* AggregatedCount.__add__, other being an AggregatedCount or a FileCount
AggregatedCount__add__(self, other) ==
    IF other.kind = "AggregatedCount"
    THEN AggregatedCount(self.num_files + other.num_files,
                         self.num_empty_files + other.num_empty_files,
                         self.needed + other.needed,
                         self.found + other.found,
                         self.missing + other.missing)
    ELSE AggregatedCount(self.num_files + 1,
                         self.num_empty_files + (IF other.is_empty THEN 1 ELSE 0),
                         self.needed + other.needed,
                         self.found + other.found,
                         self.missing + other.missing)

----------------------------------------------------------------------------
(* result_collection.py: File *)

\* File.__init__
File == [expected_docstrings |-> <<>>, status |-> "ANALYZED"]

\* the loop of File.count_aggregate over self._expected_docstrings
RECURSIVE count_loop(_, _)
count_loop(expds, count) ==
    IF expds = <<>> THEN count
    ELSE LET expd == Head(expds) IN
         count_loop(Tail(expds),
                    IF Truthy(expd.ignore_reason) THEN count
                    ELSE IF expd.has_docstring THEN found_needed_docstr(count)
                    ELSE missed_needed_docstring(count))

\* File.count_aggregate
File_count_aggregate(file) ==
    IF file.status = "EMPTY" THEN found_empty_file(FileCount)
    ELSE count_loop(file.expected_docstrings, FileCount)

\* File.expected_docstrings: the records in iteration order
expected_docstrings(file) == file.expected_docstrings

\* mutant of collect_docstring: the new record goes to the front
File_collect_docstring_front(file, identifier, has_docstring, ignore_reason) ==
    [file EXCEPT !.expected_docstrings =
        <<ExpectedDocstring(identifier, has_docstring, ignore_reason)>> \o @]

\* File.collect_docstring
File_collect_docstring(file, identifier, has_docstring, ignore_reason) ==
    [file EXCEPT !.expected_docstrings =
        Append(@, ExpectedDocstring(identifier, has_docstring, ignore_reason))]

\* File.collect_module_docstring
File_collect_module_docstring(file, has_docstring, ignore_reason) ==
    File_collect_docstring(file, "module docstring", has_docstring, ignore_reason)

----------------------------------------------------------------------------
(* result_collection.py: ResultCollection *)

\* functools.reduce(operator.add, counts, initial)
RECURSIVE reduce_add(_, _)
reduce_add(counts, acc) ==
    IF counts = <<>> THEN acc
    ELSE reduce_add(Tail(counts), AggregatedCount__add__(acc, Head(counts)))

\* the per-file counts of the File instances named by the sequence ids
FileCounts(ids) == [i \in 1..Len(ids) |-> File_count_aggregate(heap[ids[i]])]

\* self._files.values(), in dict order
FilesValues == [i \in 1..Len(keys) |-> files[keys[i]]]

\* ResultCollection.count_aggregate
ResultCollection_count_aggregate ==
    reduce_add(FileCounts(FilesValues), AggregatedCount(0, 0, 0, 0, 0))

\* the list comprehension of to_legacy building missing_list
RECURSIVE missing_list(_)
missing_list(expds) ==
    IF expds = <<>> THEN <<>>
    ELSE LET e == Head(expds) IN
         (IF ~(Truthy(e.ignore_reason) \/ e.has_docstring
               \/ e.node_identifier = "module docstring")
          THEN <<e.node_identifier>> ELSE <<>>) \o missing_list(Tail(expds))

\* has_module_doc of to_legacy
has_module_doc(expds) ==
    Cardinality({i \in 1..Len(expds) :
        expds[i].node_identifier = "module docstring" /\ expds[i].has_docstring}) > 0

\* file_results[file_path] of to_legacy
legacy_file_result(file) ==
    LET count == File_count_aggregate(file) IN
    [missing |-> missing_list(expected_docstrings(file)),
     module_doc |-> has_module_doc(expected_docstrings(file)),
     missing_count |-> count.missing,
     needed_count |-> count.needed,
     coverage |-> coverage(count),
     empty |-> count.is_empty]

\* ResultCollection.to_legacy: (file_results, total_results)
to_legacy ==
    LET total_count == ResultCollection_count_aggregate IN
    [file_results |-> [p \in {keys[i] : i \in 1..Len(keys)} |->
                          legacy_file_result(heap[files[p]])],
     total_results |-> [missing_count |-> total_count.missing,
                        needed_count |-> total_count.needed,
                        coverage |-> coverage(total_count)]]

----------------------------------------------------------------------------
(* Python strings and regular expressions *)

\* s[i], 0-based as in Python
CharAt(s, i) == SubSeq(s, i + 1, i + 1)

\* s.startswith(p)
startswith(s, p) == Len(s) >= Len(p) /\ SubSeq(s, 1, Len(p)) = p

\* s.endswith(p)
endswith(s, p) == Len(s) >= Len(p) /\ SubSeq(s, Len(s) - Len(p) + 1, Len(s)) = p

\* c in s, for a character c
contains(s, c) == \E i \in 1..Len(s) : SubSeq(s, i, i) = c

Whitespace == {" ", "\t", "\n"}

\* s.strip()
RECURSIVE lstrip(_)
lstrip(s) ==
    IF Len(s) > 0 /\ SubSeq(s, 1, 1) \in Whitespace
    THEN lstrip(SubSeq(s, 2, Len(s))) ELSE s

RECURSIVE rstrip(_)
rstrip(s) ==
    IF Len(s) > 0 /\ SubSeq(s, Len(s), Len(s)) \in Whitespace
    THEN rstrip(SubSeq(s, 1, Len(s) - 1)) ELSE s

strip(s) == lstrip(rstrip(s))

Lowercase == "abcdefghijklmnopqrstuvwxyz"
Uppercase == "ABCDEFGHIJKLMNOPQRSTUVWXYZ"

\* c.upper() for a character c
upper(c) ==
    IF \E i \in 1..Len(Lowercase) : SubSeq(Lowercase, i, i) = c
    THEN LET i == CHOOSE i \in 1..Len(Lowercase) : SubSeq(Lowercase, i, i) = c
         IN SubSeq(Uppercase, i, i)
    ELSE c

\* A regular expression is a sequence of items: a literal [lit], an optional
\* literal [opt] as in (ed)?, a run of whitespace [ws] for \s*, or a run of
\* arbitrary characters other than newline [any] for .*
Lit(s) == [kind |-> "lit", s |-> s]
Opt(s) == [kind |-> "opt", s |-> s]
WsRun == [kind |-> "ws", s |-> ""]
AnyRun == [kind |-> "any", s |-> ""]

\* items k.. of regex match str from position pos on (1-based); with full
\* the match has to end at the end of str
RECURSIVE match_from(_, _, _, _, _)
match_from(regex, k, str, pos, full) ==
    IF k > Len(regex) THEN (~full \/ pos = Len(str) + 1)
    ELSE LET item == regex[k]
             lit_here == /\ pos + Len(item.s) - 1 <= Len(str)
                         /\ SubSeq(str, pos, pos + Len(item.s) - 1) = item.s
         IN CASE item.kind = "lit" ->
                    lit_here /\ match_from(regex, k + 1, str, pos + Len(item.s), full)
              [] item.kind = "opt" ->
                    \/ lit_here /\ match_from(regex, k + 1, str, pos + Len(item.s), full)
                    \/ match_from(regex, k + 1, str, pos, full)
              [] item.kind = "ws" ->
                    \E n \in 0..(Len(str) - pos + 1) :
                        /\ \A i \in pos..(pos + n - 1) : SubSeq(str, i, i) \in Whitespace
                        /\ match_from(regex, k + 1, str, pos + n, full)
              [] item.kind = "any" ->
                    \E n \in 0..(Len(str) - pos + 1) :
                        /\ \A i \in pos..(pos + n - 1) : SubSeq(str, i, i) # "\n"
                        /\ match_from(regex, k + 1, str, pos + n, full)

\* regex.match(str): a match at the beginning of str
re_match(regex, str) == match_from(regex, 1, str, 1, FALSE)

----------------------------------------------------------------------------
(* visitor.py: tokens, excuse comments, decorators *)

\* the grave accent that delimits the reason of an excuse; the strings of this
\* module write it as an apostrophe, which occurs in no other text
Grave == "'"

ACCEPTED_EXCUSE_PATTERNS ==
    << <<Lit("#"), WsRun, Lit("docstr-coverage"), WsRun, Lit(":"), WsRun,
         Lit("inherit"), Opt("ed"), WsRun>>,
       <<Lit("#"), WsRun, Lit("docstr-coverage"), WsRun, Lit(":"), WsRun,
         Lit("excuse"), Opt("d"), WsRun, Lit(" " \o Grave), AnyRun, Lit(Grave), WsRun>> >>

\* tokenize.TokenInfo: type, string and the physical line holding the token
Token(type, string, line) == [type |-> type, string |-> string, line |-> line]

\* texts of the comments of the source files: the inherit form, the excuse
\* form with its reason right behind the directive, the inherit form with
\* text behind it, and a comment that is no directive
ExcuseComment == "# docstr-coverage: inherited"
TightExcuse == "# docstr-coverage:excused" \o Grave \o "why" \o Grave
LongComment == "# docstr-coverage: inherited from base"
PlainComment == "# note"
CommentTexts == {ExcuseComment, TightExcuse, LongComment, PlainComment}

\* The physical lines that can stand above a definition: a blank line, a
\* comment line, a decorator line, a line of code; the last two with or
\* without a trailing comment.
LineKinds ==
    {[kind |-> "blank", comment |-> None]}
        \cup [kind : {"comment"}, comment : CommentTexts]
        \cup [kind : {"decorator", "code"}, comment : {None, ExcuseComment}]

\* the text of a physical line
LineText(l) ==
    CASE l.kind = "blank" -> "\n"
      [] l.kind = "comment" -> l.comment \o "\n"
      [] l.kind = "decorator" ->
            IF l.comment = None THEN "@decorator\n" ELSE "@decorator  " \o l.comment \o "\n"
      [] l.kind = "code" ->
            IF l.comment = None THEN "x = 1\n" ELSE "x = 1  " \o l.comment \o "\n"

\* tokenize.tokenize on one physical line
TokenizeLine(l) ==
    LET text == LineText(l)
        trailing == IF l.comment = None THEN <<>>
                    ELSE <<Token("COMMENT", l.comment, text)>>
    IN CASE l.kind = "blank" -> <<Token("NL", "\n", text)>>
         [] l.kind = "comment" ->
               <<Token("COMMENT", l.comment, text), Token("NL", "\n", text)>>
         [] l.kind = "decorator" ->
               <<Token("OP", "@", text), Token("NAME", "decorator", text)>>
                   \o trailing \o <<Token("NEWLINE", "\n", text)>>
         [] l.kind = "code" ->
               <<Token("NAME", "x", text), Token("OP", "=", text),
                 Token("NUMBER", "1", text)>>
                   \o trailing \o <<Token("NEWLINE", "\n", text)>>

\* the tokens of the lines above a definition, after the ENCODING token that
\* opens every token stream
RECURSIVE TokenizeLines(_)
TokenizeLines(lines) ==
    IF lines = <<>> THEN <<>>
    ELSE TokenizeLine(Head(lines)) \o TokenizeLines(Tail(lines))

Tokenize(lines) == <<Token("ENCODING", "utf-8", "")>> \o TokenizeLines(lines)

\* DocStringCoverageVisitor._is_excuse_token
_is_excuse_token(token) ==
    /\ token.type = "COMMENT"
    /\ \E r \in 1..Len(ACCEPTED_EXCUSE_PATTERNS) :
          re_match(ACCEPTED_EXCUSE_PATTERNS[r], token.string)

\* mutant of _is_skip_token: the tokens of decorator lines are not passed over
_is_skip_token_no_decorator(token) == token.type = "NL" \/ token.type = "NEWLINE" \/ (token.type = "NAME" /\ token.string = "class")

\* DocStringCoverageVisitor._is_skip_token
_is_skip_token(token) ==
    \/ token.type = "NL"
    \/ token.type = "NEWLINE"
    \/ (token.type = "NAME" /\ token.string = "class")
    \/ startswith(strip(token.line), "@")

\* the while loop of _has_excuse, token_index 0-based
RECURSIVE excuse_scan(_, _)
excuse_scan(tokens, token_index) ==
    IF token_index >= 0
    THEN LET as_token == tokens[token_index + 1] IN
         IF _is_skip_token(as_token) THEN excuse_scan(tokens, token_index - 1)
         ELSE _is_excuse_token(as_token)
    ELSE FALSE

\* DocStringCoverageVisitor._has_excuse: tokens_above are the tokens before
\* the first token of the line node.lineno, so that token has index
\* Len(tokens_above) and the scan starts one below it.
_has_excuse(node) ==
    LET tokens_above == Tokenize(node.lines_above)
    IN excuse_scan(tokens_above, Len(tokens_above) - 1)

\* DocStringCoverageVisitor._has_docstring; node.doc is ast.get_docstring(node)
_has_docstring(node) == node.doc # None /\ strip(node.doc) # ""

\* DocStringCoverageVisitor._has_doc_or_excuse
_has_doc_or_excuse(node) == _has_docstring(node) \/ _has_excuse(node)

\* a decorator expression: ast.Name (it has .id), ast.Attribute (it has
\* .attr) or ast.Call (it has neither)
Name(id) == [node |-> "Name", id |-> id]
Attribute(attr) == [node |-> "Attribute", attr |-> attr]
Call == [node |-> "Call"]

\* mutant of decorator_scan: only the first decorator is looked at
decorator_scan_head_only(decorator_list) == IF decorator_list = <<>> THEN None ELSE IF Head(decorator_list) = Name("property") THEN "@property" ELSE IF Head(decorator_list) = Attribute("setter") THEN "@setter" ELSE IF Head(decorator_list) = Attribute("deleter") THEN "@deleter" ELSE None

\* the loop of _relevant_decorator over node.decorator_list
RECURSIVE decorator_scan(_)
decorator_scan(decorator_list) ==
    IF decorator_list = <<>> THEN None
    ELSE LET parsed_decorator == Head(decorator_list) IN
         IF parsed_decorator.node = "Name" /\ parsed_decorator.id = "property"
         THEN "@property"
         ELSE IF parsed_decorator.node = "Attribute" /\ parsed_decorator.attr = "setter"
         THEN "@setter"
         ELSE IF parsed_decorator.node = "Attribute" /\ parsed_decorator.attr = "deleter"
         THEN "@deleter"
         ELSE decorator_scan(Tail(decorator_list))

\* mutant of _relevant_decorator: it knows the decorator property only
_relevant_decorator_property_only(node) == IF \E d \in 1..Len(node.decorator_list) : node.decorator_list[d] = Name("property") THEN "@property" ELSE None

\* DocStringCoverageVisitor._relevant_decorator
_relevant_decorator(node) == decorator_scan(node.decorator_list)

----------------------------------------------------------------------------
(* The syntax tree of a source file *)

\* the compound statements of a file: class, def, async def, and if for
\* every statement that has a body but is no definition
NodeKinds == {"ClassDef", "FunctionDef", "AsyncFunctionDef", "If"}

\* the kinds NodeVisitor dispatches to _visit_helper: visit_ClassDef and
\* visit_FunctionDef are the only visit methods for statements
HelperKinds == {"ClassDef", "FunctionDef"}

\* One compound statement. parent is the index of the statement whose body
\* holds it (0: the module), doc is ast.get_docstring of it, lines_above are
\* the physical lines of its block before the line node.lineno.
Node(kind, name, parent, doc, lines_above, decorator_list) ==
    [kind |-> kind, name |-> name, parent |-> parent, doc |-> doc,
     lines_above |-> lines_above, decorator_list |-> decorator_list]

\* ast.Module: its docstring, whether its body holds a simple statement
\* besides the docstring, and its compound statements in source order
Module(doc, other, nodes) == [doc |-> doc, other |-> other, nodes |-> nodes]

\* iterating the body of statement p (0: the module): the indices of the
\* statements directly in it, in source order
RECURSIVE body_from(_, _, _)
body_from(module, p, i) ==
    IF i > Len(module.nodes) THEN <<>>
    ELSE (IF module.nodes[i].parent = p THEN <<i>> ELSE <<>>)
             \o body_from(module, p, i + 1)

\* mutant of body: the statements of a body last first
body_reversed(module, p) == LET b == body_from(module, p, 1) IN [i \in 1..Len(b) |-> b[Len(b) + 1 - i]]

body(module, p) == body_from(module, p, 1)

\* len(node.body) of the module
len_body(module) ==
    (IF module.doc # None THEN 1 ELSE 0) + (IF module.other THEN 1 ELSE 0)
        + Len(body(module, 0))

\* the positions of character c in s (1-based)
positions(s, c) == {i \in 1..Len(s) : SubSeq(s, i, i) = c}

\* the greatest element of a non-empty set of numbers
Max(S) == CHOOSE i \in S : \A j \in S : j <= i

\* os.path.basename(path): what follows the last slash
path_basename(path) ==
    IF positions(path, "/") = {} THEN path
    ELSE SubSeq(path, Max(positions(path, "/")) + 1, Len(path))

\* os.path.splitext(name)[0]: name without its extension, the last dot and
\* what follows it; dots at the beginning of name start no extension
splitext_root(name) ==
    LET dots == {i \in positions(name, ".") :
                    \E j \in 1..(i - 1) : SubSeq(name, j, j) # "."}
    IN IF dots = {} THEN name ELSE SubSeq(name, 1, Max(dots) - 1)

\* os.path.splitext(os.path.basename(filename))[0]
basename(filename) == splitext_root(path_basename(filename))

----------------------------------------------------------------------------
(* coverage.py: the visitor of get_docstring_coverage and print_docstring *)

\* has_doc of coverage.py's visit_Module and _visit_helper
legacy_has_doc(node) == node.doc # None /\ strip(node.doc) # ""

\* coverage.py's generic_visit of the body of statement p: the triples
\* (name, has_doc, children) that _visit_helper appends to self.tree[-1][-1],
\* where a statement without a visit method hands its body on to the
\* enclosing triple
RECURSIVE legacy_visit_body(_, _)
legacy_visit_body(module, stmts) ==
    IF stmts = <<>> THEN <<>>
    ELSE LET c == Head(stmts)
             node == module.nodes[c]
             below == legacy_visit_body(module, body(module, c))
         IN (IF node.kind \in HelperKinds
             THEN << <<node.name, legacy_has_doc(node), below>> >>
             ELSE below)
                \o legacy_visit_body(module, Tail(stmts))

\* doc_visitor.tree[0] after doc_visitor.visit(parse(source_tree))
legacy_tree(module) ==
    <<legacy_has_doc(module), len_body(module) = 0,
      legacy_visit_body(module, body(module, 0))>>

\* the flags of get_docstring_coverage
LegacyFlags == [skip_magic : BOOLEAN, skip_file_docstring : BOOLEAN,
                skip_init : BOOLEAN, skip_class_def : BOOLEAN]

\* the three name tests of print_docstring
is_init(name) == name = "__init__"

is_magic(name) ==
    startswith(name, "__") /\ endswith(name, "__") /\ name # "__init__"

is_class_def(name) ==
    ~contains(name, "_") /\ CharAt(name, 0) = upper(CharAt(name, 0))

\* print_docstring(base, node) and its loop over child_nodes; the result is
\* <<docs_needed, docs_covered, _missing_list>>
RECURSIVE print_docstring(_, _, _)
RECURSIVE print_children(_, _, _, _)
\* mutant of print_docstring: the children get the full path as base
print_docstring_full_path(flags, base, node) == print_children(flags, base \o node[1] \o ".", node[3], IF node[2] THEN <<1, 1, <<>> >> ELSE IF (flags.skip_init /\ is_init(node[1])) \/ (flags.skip_magic /\ is_magic(node[1])) \/ (flags.skip_class_def /\ is_class_def(node[1])) THEN <<0, 0, <<>> >> ELSE <<1, 0, <<base \o node[1]>> >>)

print_docstring(flags, base, node) ==
    LET name == node[1]
        has_doc == node[2]
        child_nodes == node[3]
        skipped == \/ (flags.skip_init /\ is_init(name))
                   \/ (flags.skip_magic /\ is_magic(name))
                   \/ (flags.skip_class_def /\ is_class_def(name))
        own == IF ~has_doc
               THEN IF skipped THEN <<0, 0, <<>> >>
                    ELSE <<1, 0, <<base \o name>> >>
               ELSE <<1, 1, <<>> >>
    IN print_children(flags, name \o ".", child_nodes, own)

print_children(flags, base, child_nodes, acc) ==
    IF child_nodes = <<>> THEN acc
    ELSE LET temp == print_docstring(flags, base, Head(child_nodes))
         IN print_children(flags, base, Tail(child_nodes),
                <<acc[1] + temp[1], acc[2] + temp[2], acc[3] \o temp[3]>>)

----------------------------------------------------------------------------
(* ignore_config.py, and the ignore decision of analyze *)

\* IgnoreConfig.__init__ with its keyword arguments; the fields are read
\* through properties without setters
IgnoreConfig(ignore_names, skip_magic, skip_file_docstring, skip_init, skip_class_def, skip_private, skip_property, skip_setter, skip_deleter) ==
    [ignore_names |-> ignore_names, skip_magic |-> skip_magic,
     skip_file_docstring |-> skip_file_docstring, skip_init |-> skip_init,
     skip_class_def |-> skip_class_def, skip_private |-> skip_private,
     skip_property |-> skip_property, skip_setter |-> skip_setter,
     skip_deleter |-> skip_deleter]

\* IgnoreConfig()
DefaultIgnoreConfig ==
    IgnoreConfig(<<>>, FALSE, FALSE, FALSE, FALSE, FALSE, FALSE, TRUE, TRUE)

\* regex.fullmatch(str)
re_fullmatch(regex, str) == match_from(regex, 1, str, 1, TRUE)

\* one pattern group against a node: the first regex against the base name of
\* the file, the others against the bare name and the prefixed name
group_matches(group, filename, base, name) ==
    /\ Len(group) >= 1
    /\ re_fullmatch(group[1], basename(filename))
    /\ \E k \in 2..Len(group) :
          \/ re_fullmatch(group[k], name)
          \/ re_fullmatch(group[k], base \o name)

\* mutant of the decision: the first group whose file regex matches decides
RECURSIVE do_ignore_node_first_file(_, _, _, _)
do_ignore_node_first_file(ignore_names, filename, base, name) ==
    IF ignore_names = <<>> THEN FALSE
    ELSE IF Len(Head(ignore_names)) >= 1 /\ re_fullmatch(Head(ignore_names)[1], basename(filename))
    THEN group_matches(Head(ignore_names), filename, base, name)
    ELSE do_ignore_node_first_file(Tail(ignore_names), filename, base, name)

\* the ignore_names decision: the groups in configuration order, the first
\* one that matches file and name decides
RECURSIVE do_ignore_node(_, _, _, _)
do_ignore_node(ignore_names, filename, base, name) ==
    IF ignore_names = <<>> THEN FALSE
    ELSE IF group_matches(Head(ignore_names), filename, base, name) THEN TRUE
    ELSE do_ignore_node(Tail(ignore_names), filename, base, name)

\* identifier starts with exactly one underscore
is_private(name) == startswith(name, "_") /\ ~startswith(name, "__")

\* the reason of the decorator rules for a decorator classification
decorator_reason(ignore_config, decorator) ==
    IF ignore_config.skip_deleter /\ decorator = "@deleter"
    THEN "skip-deleter set to True"
    ELSE IF ignore_config.skip_property /\ decorator = "@property"
    THEN "skip-property set to True"
    ELSE IF ignore_config.skip_setter /\ decorator = "@setter"
    THEN "skip-setter set to True"
    ELSE None

\* mutant of the decision: the pattern and decorator rules come first
ignore_reason_late_names(ignore_config, filename, base, name, decorator) ==
    IF decorator_reason(ignore_config, decorator) # None
    THEN decorator_reason(ignore_config, decorator)
    ELSE IF do_ignore_node(ignore_config.ignore_names, filename, base, name)
    THEN "matching ignore pattern"
    ELSE IF ignore_config.skip_init /\ is_init(name)
    THEN "skip-init set to True"
    ELSE IF ignore_config.skip_magic /\ is_magic(name)
    THEN "skip-magic set to True"
    ELSE IF ignore_config.skip_class_def /\ is_class_def(name)
    THEN "skip-class-def set to True"
    ELSE IF ignore_config.skip_private /\ is_private(name)
    THEN "skip-private set to True"
    ELSE None

\* the ignore reason of a node that is not the module: the rules in their
\* fixed order, the first applicable one gives the reason
ignore_reason_of(ignore_config, filename, base, name, decorator) ==
    IF ignore_config.skip_init /\ is_init(name)
    THEN "skip-init set to True"
    ELSE IF ignore_config.skip_magic /\ is_magic(name)
    THEN "skip-magic set to True"
    ELSE IF ignore_config.skip_class_def /\ is_class_def(name)
    THEN "skip-class-def set to True"
    ELSE IF ignore_config.skip_private /\ is_private(name)
    THEN "skip-private set to True"
    ELSE IF do_ignore_node(ignore_config.ignore_names, filename, base, name)
    THEN "matching ignore pattern"
    ELSE decorator_reason(ignore_config, decorator)

\* the ignore reason of the module docstring
module_ignore_reason(ignore_config) ==
    IF ignore_config.skip_file_docstring THEN "--skip-file-docstring=True"
    ELSE None

----------------------------------------------------------------------------
(* Operations of the result model *)

NumCalls == LET RECURSIVE Sum(_)
                Sum(i) == IF i = 0 THEN 0 ELSE Len(calls[i]) + Sum(i - 1)
            IN Sum(Len(calls))

\* mutant of get_file: the lookup is skipped, a File is created on every call
get_file_always_new(file_path) ==
    /\ heap' = Append(heap, File)
    /\ calls' = Append(calls, <<>>)
    /\ files' = [files EXCEPT ![file_path] = Len(heap) + 1]
    /\ keys' = IF files[file_path] # 0 THEN keys ELSE Append(keys, file_path)
    /\ hit' = hit
    /\ requested' = requested \cup {file_path}
    /\ got' = [got EXCEPT ![file_path] = @ \cup {Len(heap) + 1}]

\* ResultCollection.get_file
get_file(file_path) ==
    /\ IF files[file_path] # 0
       THEN \* return self._files[file_path]
            /\ got' = [got EXCEPT ![file_path] = @ \cup {files[file_path]}]
            /\ hit' = TRUE
            /\ UNCHANGED <<files, keys, heap, calls>>
       ELSE /\ heap' = Append(heap, File)
            /\ calls' = Append(calls, <<>>)
            /\ files' = [files EXCEPT ![file_path] = Len(heap) + 1]
            /\ keys' = Append(keys, file_path)
            \* return file
            /\ got' = [got EXCEPT ![file_path] = @ \cup {Len(heap) + 1}]
            /\ hit' = hit
    /\ requested' = requested \cup {file_path}

GetFile ==
    /\ \E file_path \in Paths : get_file(file_path)
    /\ UNCHANGED avars

\* heap[f].collect_docstring(identifier, has_docstring, ignore_reason)
collect_docstring(f, identifier, has_docstring, ignore_reason) ==
    /\ heap' = [heap EXCEPT ![f] =
          File_collect_docstring(@, identifier, has_docstring, ignore_reason)]
    /\ calls' = [calls EXCEPT ![f] =
          Append(@, <<identifier, has_docstring, ignore_reason>>)]

\* heap[f].collect_module_docstring(has_docstring, ignore_reason)
collect_module_docstring(f, has_docstring, ignore_reason) ==
    /\ heap' = [heap EXCEPT ![f] =
          File_collect_module_docstring(@, has_docstring, ignore_reason)]
    /\ calls' = [calls EXCEPT ![f] =
          Append(@, <<"module docstring", has_docstring, ignore_reason>>)]

\* file.collect_docstring(identifier, has_docstring, ignore_reason)
CollectDocstring ==
    \E f \in 1..Len(heap), identifier \in NodeIdentifiers,
       has_docstring \in BOOLEAN, ignore_reason \in IgnoreReasons :
        /\ NumCalls < MaxRecords
        /\ collect_docstring(f, identifier, has_docstring, ignore_reason)
        /\ UNCHANGED <<files, keys, hit, requested, got, avars>>

\* file.collect_module_docstring(has_docstring, ignore_reason)
CollectModuleDocstring ==
    \E f \in 1..Len(heap), has_docstring \in BOOLEAN,
       ignore_reason \in IgnoreReasons :
        /\ NumCalls < MaxRecords
        /\ collect_module_docstring(f, has_docstring, ignore_reason)
        /\ UNCHANGED <<files, keys, hit, requested, got, avars>>

\* file.status = status
SetStatus ==
    \E f \in 1..Len(heap), status \in FileStatus :
        /\ heap' = [heap EXCEPT ![f].status = status]
        /\ UNCHANGED <<files, keys, hit, requested, got, calls, avars>>

\* ResultCollection.__init__
ResultCollection__init__ ==
    /\ files = [p \in Paths |-> 0]
    /\ keys = <<>>
    /\ heap = <<>>
    /\ hit = FALSE
    /\ requested = {}
    /\ got = [p \in Paths |-> {}]
    /\ calls = <<>>

\* no visitor has been constructed yet
NoVisitor ==
    /\ frames = <<>>
    /\ tree = <<>>
    /\ out = <<>>
    /\ module_entry = None
    /\ symbol_count = 0
    /\ recorded = 0

\* the locals of get_docstring_coverage before its loop
NoCoverage ==
    /\ total_docs_needed = 0
    /\ total_docs_covered = 0
    /\ empty_files = 0
    /\ file_results = <<>>
    /\ total_results = None
    /\ grade = None

\* no single function is called
NoCall ==
    /\ args = <<>>
    /\ ret = <<>>

\* a ResultCollection used directly: no analysis runs
Init ==
    /\ ResultCollection__init__
    /\ filenames = <<>>
    /\ fs = [p \in Paths |-> Module(None, FALSE, <<>>)]
    /\ analyze_config = DefaultIgnoreConfig
    /\ coverage_flags = [skip_magic |-> FALSE, skip_file_docstring |-> FALSE,
                         skip_init |-> FALSE, skip_class_def |-> FALSE]
    /\ fidx = 1
    /\ pc = "idle"
    /\ NoVisitor
    /\ NoCoverage
    /\ NoCall

Next ==
    \/ GetFile
    \/ CollectDocstring
    \/ CollectModuleDocstring
    \/ SetStatus

Spec == Init /\ [][Next]_vars

----------------------------------------------------------------------------
(* visitor.py: DocStringCoverageVisitor on the file filenames[fidx] *)

\* the file under analysis and its syntax tree
this_file == filenames[fidx]
parsed == fs[this_file]

\* __init__ and visit_Module up to its call of generic_visit
VisitModule ==
    /\ pc = "open"
    /\ symbol_count' = 0
    /\ module_entry' = [has_doc |-> _has_docstring(parsed),
                        is_empty |-> len_body(parsed) = 0]
    /\ out' = <<>>
    /\ tree' = <<0>>
    /\ frames' = <<[node |-> 0, todo |-> body(parsed, 0), helper |-> FALSE]>>
    /\ pc' = "visit"
    /\ UNCHANGED <<rvars, ivars, cvars, fidx, recorded, lvars>>

\* the statement generic_visit visits next, in the innermost call
top == frames[Len(frames)]
visited == parsed.nodes[Head(top.todo)]

\* visit_ClassDef, visit_FunctionDef: _visit_helper up to its generic_visit
VisitHelper ==
    /\ pc = "visit"
    /\ top.todo # <<>>
    /\ visited.kind \in HelperKinds
    /\ symbol_count' = symbol_count + 1
    /\ out' = Append(out, [name |-> visited.name,
                           has_doc |-> _has_doc_or_excuse(visited),
                           relevant_decorator |-> _relevant_decorator(visited),
                           parent |-> tree[Len(tree)],
                           node |-> Head(top.todo)])
    /\ tree' = Append(tree, Len(out) + 1)
    /\ frames' = Append([frames EXCEPT ![Len(frames)].todo = Tail(@)],
                        [node |-> Head(top.todo),
                         todo |-> body(parsed, Head(top.todo)),
                         helper |-> TRUE])
    /\ UNCHANGED <<rvars, ivars, cvars, fidx, pc, recorded, module_entry, lvars>>

\* a statement without a visit method: NodeVisitor.generic_visit of it
GenericVisit ==
    /\ pc = "visit"
    /\ top.todo # <<>>
    /\ visited.kind \notin HelperKinds
    /\ frames' = Append([frames EXCEPT ![Len(frames)].todo = Tail(@)],
                        [node |-> Head(top.todo),
                         todo |-> body(parsed, Head(top.todo)),
                         helper |-> FALSE])
    /\ UNCHANGED <<rvars, ivars, cvars, fidx, pc, recorded, symbol_count, module_entry,
                   out, tree, lvars>>

\* generic_visit returns; _visit_helper then pops self.tree
Return ==
    /\ pc = "visit"
    /\ top.todo = <<>>
    /\ frames' = SubSeq(frames, 1, Len(frames) - 1)
    /\ tree' = IF top.helper THEN SubSeq(tree, 1, Len(tree) - 1) ELSE tree
    /\ pc' = IF Len(frames) = 1 THEN "file" ELSE "visit"
    /\ UNCHANGED <<rvars, ivars, cvars, fidx, recorded, symbol_count, module_entry, out,
                   lvars>>

----------------------------------------------------------------------------
(* analyze: the visitor's result of one file goes into the ResultCollection *)

\* file_result = results.get_file(this_file)
AnalyzeGetFile ==
    /\ pc = "file"
    /\ get_file(this_file)
    /\ pc' = "module"
    /\ UNCHANGED <<ivars, cvars, fidx, recorded, vvars, lvars>>

\* an empty file gets the status EMPTY, any other file its module record
ReportModule ==
    /\ pc = "module"
    /\ IF module_entry.is_empty
       THEN /\ heap' = [heap EXCEPT ![files[this_file]].status = "EMPTY"]
            /\ calls' = calls
       ELSE collect_module_docstring(files[this_file], module_entry.has_doc,
                                     module_ignore_reason(analyze_config))
    /\ recorded' = 0
    /\ pc' = "nodes"
    /\ UNCHANGED <<files, keys, hit, requested, got, ivars, cvars, fidx, vvars, lvars>>

\* the prefix of the identifier of a node: the name of the node it is a
\* child of and a dot, nothing for a child of the module
base_of(entry) == IF entry.parent = 0 THEN "" ELSE out[entry.parent].name \o "."

\* the record of the next node of the visitor's result, parents first
ReportNode ==
    /\ pc = "nodes"
    /\ recorded < Len(out)
    /\ LET entry == out[recorded + 1]
           base == base_of(entry)
       IN collect_docstring(files[this_file], base \o entry.name, entry.has_doc,
              ignore_reason_of(analyze_config, this_file, base, entry.name,
                               entry.relevant_decorator))
    /\ recorded' = recorded + 1
    /\ UNCHANGED <<files, keys, hit, requested, got, ivars, cvars, fidx, pc, vvars,
                   lvars>>

\* the loop of analyze over filenames goes on, or analyze returns
NextFile ==
    /\ pc = "nodes"
    /\ recorded = Len(out)
    /\ IF fidx < Len(filenames)
       THEN fidx' = fidx + 1 /\ pc' = "open"
       ELSE fidx' = fidx /\ pc' = "done"
    /\ UNCHANGED <<rvars, ivars, cvars, recorded, vvars, lvars>>

----------------------------------------------------------------------------
(* coverage.py: get_docstring_coverage *)

GRADES ==
    << <<"AMAZING! Your docstrings are truly a wonder to behold!", 100>>,
       <<"Excellent", 92>>, <<"Great", 85>>, <<"Very good", 70>>,
       <<"Good", 60>>, <<"Not bad", 40>>, <<"Not good", 25>>,
       <<"Extremely poor", 10>>, <<"Not documented at all", 2>>,
       <<"Do you even docstring?", 1>> >>

\* threshold <= coverage, for an integer threshold and a float
leq_float(threshold, value) == threshold * value.den <= value.num

\* next(label for label, threshold in grades if threshold <= coverage): the
\* label of the first entry that fits, or the StopIteration of next()
next_grade(grades, coverage_) ==
    LET fits == {g \in 1..Len(grades) : leq_float(grades[g][2], coverage_)}
    IN IF fits = {} THEN [raised |-> "StopIteration", value |-> None]
       ELSE [raised |-> None,
             value |-> grades[CHOOSE g \in fits : \A h \in fits : g <= h][1]]

\* the sum of print_docstring over the symbols of the module
RECURSIVE print_symbols(_, _, _)
print_symbols(flags, symbols, acc) ==
    IF symbols = <<>> THEN acc
    ELSE LET temp == print_docstring(flags, "", Head(symbols))
         IN print_symbols(flags, Tail(symbols),
                <<acc[1] + temp[1], acc[2] + temp[2], acc[3] \o temp[3]>>)

\* a source text that is not valid Python
InvalidSource == [syntax_error |-> "invalid syntax"]

\* ast.parse(source): the tree, or the SyntaxError it raises
parse_lenient(source) == IF source = InvalidSource THEN [raised |-> None, tree |-> Module(None, FALSE, <<>>)] ELSE [raised |-> None, tree |-> source]

parse(source) == IF source = InvalidSource THEN [raised |-> "SyntaxError"] ELSE [raised |-> None, tree |-> source]

\* one pass of the loop over filenames whose file parses
CoverageFile ==
    /\ pc = "loop"
    /\ parse(fs[this_file]).raised = None
    /\ LET _tree == legacy_tree(parse(fs[this_file]).tree)
           start == IF ~_tree[1] /\ ~_tree[2] /\ ~coverage_flags.skip_file_docstring
                    THEN <<1, 0, <<>> >>
                    ELSE IF _tree[2] THEN <<0, 0, <<>> >>
                    ELSE <<1, 1, <<>> >>
           sums == print_symbols(coverage_flags, _tree[3], start)
           file_docs_needed == sums[1]
           file_docs_covered == sums[2]
           coverage_ == IF file_docs_needed # 0
                        THEN TrueDiv(file_docs_covered * 100, file_docs_needed)
                        ELSE [num |-> 0, den |-> 1]
       IN /\ empty_files' = IF _tree[2] THEN empty_files + 1 ELSE empty_files
          /\ total_docs_needed' = total_docs_needed + file_docs_needed
          /\ total_docs_covered' = total_docs_covered + file_docs_covered
          /\ file_results' =
                [p \in DOMAIN file_results \cup {this_file} |->
                    IF p = this_file
                    THEN [missing |-> sums[3],
                          module_doc |-> _tree[1],
                          missing_count |-> file_docs_needed - file_docs_covered,
                          needed_count |-> file_docs_needed,
                          coverage |-> coverage_,
                          empty |-> _tree[2]]
                    ELSE file_results[p]]
    /\ IF fidx < Len(filenames)
       THEN fidx' = fidx + 1 /\ pc' = "loop"
       ELSE fidx' = fidx /\ pc' = "total"
    /\ UNCHANGED <<rvars, ivars, cvars, recorded, vvars, total_results, grade>>

\* one pass of the loop over filenames whose file does not parse: nothing
\* catches the SyntaxError of parse(source_tree), it leaves the function
CoverageFileRaises ==
    /\ pc = "loop"
    /\ parse(fs[this_file]).raised # None
    /\ pc' = parse(fs[this_file]).raised
    /\ UNCHANGED <<rvars, ivars, cvars, fidx, recorded, vvars, lvars>>

\* after the loop: total_results and the grade; the division raises
\* ZeroDivisionError and next() raises StopIteration
CoverageTotal ==
    /\ pc = "total"
    /\ IF total_docs_needed = 0
       THEN /\ pc' = "ZeroDivisionError"
            /\ UNCHANGED <<total_results, grade>>
       ELSE LET coverage_ == TrueDiv(total_docs_covered * 100, total_docs_needed)
                found == next_grade(GRADES, coverage_)
            IN /\ total_results' =
                     [missing_count |-> total_docs_needed - total_docs_covered,
                      needed_count |-> total_docs_needed,
                      coverage |-> coverage_]
               /\ IF found.raised # None
                  THEN pc' = found.raised /\ grade' = grade
                  ELSE pc' = "returned" /\ grade' = found.value
    /\ UNCHANGED <<rvars, ivars, cvars, fidx, recorded, vvars, total_docs_needed,
                   total_docs_covered, empty_files, file_results>>


----------------------------------------------------------------------------
(* The source files of the runs *)

\* the name of the i-th definition of a file
NameOf(i) == SubSeq(Lowercase, i, i)

\* the statements that enclose statement i
RECURSIVE Enclosing(_, _)
Enclosing(parents, i) ==
    IF parents[i] = 0 THEN {}
    ELSE {parents[i]} \cup Enclosing(parents, parents[i])

\* the nestings of n statements listed in source order: a statement is in
\* the module, in the statement before it, or in one that encloses that one
Nestings(n) ==
    {parents \in [1..n -> 0..n] :
        \A i \in 1..n :
            /\ parents[i] < i
            /\ i > 1 => parents[i] \in {0, i - 1} \cup Enclosing(parents, i - 1)}

CodeLine == [kind |-> "code", comment |-> None]
DecoratorLine == [kind |-> "decorator", comment |-> None]

\* Files for the traversal: up to MaxNodes compound statements of every kind
\* in every nesting, a class with a docstring and the others without, each
\* below a line of code but for the first line of a file; a file without
\* compound statements with or without another statement.
TraversalNodes(n, doc, other) ==
    {[i \in 1..n |->
        Node(kinds[i], NameOf(i), parents[i],
             IF kinds[i] = "ClassDef" THEN "doc" ELSE None,
             IF i = 1 /\ doc = None /\ ~other THEN <<>> ELSE <<CodeLine>>,
             <<>>)] :
        kinds \in [1..n -> NodeKinds], parents \in Nestings(n)}

TraversalSources ==
    UNION {{Module(doc, other, nodes) :
                nodes \in IF other /\ n > 0 THEN {}
                          ELSE TraversalNodes(n, doc, other)} :
           n \in 0..MaxNodes, doc \in {None, "doc"}, other \in BOOLEAN}

\* the docstrings of a definition: none, empty, blank, a text
NodeDocs == {None, "", " ", "doc"}

\* the lines above a definition
LinesAbove == UNION {[1..n -> LineKinds] : n \in 0..MaxLinesAbove}

\* the decorator expressions of the decorator lines among lines
RECURSIVE DecoratorsOf(_)
DecoratorsOf(lines) ==
    IF lines = <<>> THEN <<>>
    ELSE (IF Head(lines).kind = "decorator" THEN <<Name("decorator")>> ELSE <<>>)
             \o DecoratorsOf(Tail(lines))

\* Files for the excuse comments: one class or function below the lines
ExcuseSources ==
    {Module(None, \E i \in 1..Len(lines) : lines[i].kind = "code",
            <<Node(kind, "f", 0, doc, lines, DecoratorsOf(lines))>>) :
        kind \in HelperKinds, doc \in NodeDocs, lines \in LinesAbove}

\* names of every shape the ignore rules look at
RuleNames == {"__init__", "__str__", "Foo", "_bar", "foo"}

\* the decorators of a definition: none, property, x.setter, x.deleter
RuleDecorators ==
    {<<>>, <<Name("property")>>, <<Attribute("setter")>>, <<Attribute("deleter")>>}

RECURSIVE DecoratorLines(_)
DecoratorLines(decorator_list) ==
    IF decorator_list = <<>> THEN <<>>
    ELSE <<DecoratorLine>> \o DecoratorLines(Tail(decorator_list))

\* Files for the ignore rules: a documented module with one definition
RuleSources ==
    {Module("doc", FALSE,
            <<Node(IF is_class_def(name) THEN "ClassDef" ELSE "FunctionDef",
                   name, 0, doc, <<CodeLine>> \o DecoratorLines(decorator_list),
                   decorator_list)>>) :
        name \in RuleNames, doc \in {None, "doc"},
        decorator_list \in RuleDecorators}

\* ignore_names values: no group, and one group for every name of every file
RuleIgnoreNames == {<<>>, << << <<AnyRun>>, <<AnyRun>> >> >>}

RuleConfigs ==
    {IgnoreConfig(ignore_names, skip_magic, FALSE, skip_init, skip_class_def,
                  skip_private, skip_property, skip_setter, skip_deleter) :
        ignore_names \in RuleIgnoreNames, skip_magic \in BOOLEAN,
        skip_init \in BOOLEAN, skip_class_def \in BOOLEAN,
        skip_private \in BOOLEAN, skip_property \in BOOLEAN,
        skip_setter \in BOOLEAN, skip_deleter \in BOOLEAN}

EmptySource == Module(None, FALSE, <<>>)

\* analyze(filenames, ignore_config) is called; the small files also as the
\* first of two files and twice in the list
InitAnalyze ==
    /\ ResultCollection__init__
    /\ \E source \in TraversalSources \cup ExcuseSources \cup RuleSources :
          /\ fs = [p \in Paths |-> IF p = "a.py" THEN source ELSE EmptySource]
          /\ IF source \in TraversalSources /\ Len(source.nodes) <= 1
             THEN /\ filenames \in
                       {<<"a.py">>, <<"a.py", "b.py">>, <<"a.py", "a.py">>}
                  /\ analyze_config \in
                       {[DefaultIgnoreConfig EXCEPT !.skip_file_docstring = b] :
                           b \in BOOLEAN}
             ELSE /\ filenames = <<"a.py">>
                  /\ IF source \in RuleSources
                     THEN analyze_config \in RuleConfigs
                     ELSE analyze_config = DefaultIgnoreConfig
    /\ coverage_flags = [skip_magic |-> FALSE, skip_file_docstring |-> FALSE,
                         skip_init |-> FALSE, skip_class_def |-> FALSE]
    /\ fidx = 1
    /\ pc = "open"
    /\ NoVisitor
    /\ NoCoverage
    /\ NoCall

NextAnalyze ==
    \/ VisitModule
    \/ VisitHelper
    \/ GenericVisit
    \/ Return
    \/ AnalyzeGetFile
    \/ ReportModule
    \/ ReportNode
    \/ NextFile

SpecAnalyze == InitAnalyze /\ [][NextAnalyze]_vars

\* Files for get_docstring_coverage: an empty file, a module with one
\* definition of every name shape, a class Foo with a method __init__, and
\* a module with two functions
LegacyNames == {"__init__", "__str__", "Foo", "foo"}

\* a module with a documented function foo and an undocumented function bar
TwoFunctions(mdoc) == Module(mdoc, FALSE, <<Node("FunctionDef", "foo", 0, "doc", <<CodeLine>>, <<>>), Node("FunctionDef", "bar", 0, None, <<CodeLine>>, <<>>)>>)

\* files with definitions three levels deep: a class Foo with a method bar
\* that holds a function baz, directly or inside an if statement, followed
\* by a function qux of the module
NestedSources ==
    {Module("doc", FALSE,
            <<Node("ClassDef", "Foo", 0, "doc", <<CodeLine>>, <<>>),
              Node("FunctionDef", "bar", 1, doc, <<>>, <<>>),
              Node(kind, "x", 2, None, <<>>, <<>>),
              Node("FunctionDef", "baz", IF kind = "If" THEN 3 ELSE 2, None, <<>>, <<>>),
              Node("FunctionDef", "qux", 0, None, <<CodeLine>>, <<>>)>>) :
        doc \in {None, "doc"}, kind \in {"If", "FunctionDef"}}

LegacySources ==
    {EmptySource} \cup NestedSources
        \cup {TwoFunctions(mdoc) : mdoc \in {None, "doc"}}
        \cup {Module(mdoc, FALSE,
                     <<Node(IF is_class_def(name) THEN "ClassDef" ELSE "FunctionDef",
                            name, 0, doc, <<CodeLine>>, <<>>)>>) :
                 mdoc \in {None, "doc"}, name \in LegacyNames,
                 doc \in {None, "doc"}}
        \cup {Module(mdoc, FALSE,
                     <<Node("ClassDef", "Foo", 0, cdoc, <<CodeLine>>, <<>>),
                       Node("FunctionDef", "__init__", 1, doc, <<CodeLine>>, <<>>)>>) :
                 mdoc \in {None, "doc"}, cdoc \in {None, "doc"},
                 doc \in {None, "doc"}}

OtherSources ==
    {EmptySource, InvalidSource,
     Module("doc", FALSE, <<Node("FunctionDef", "foo", 0, None, <<CodeLine>>, <<>>)>>)}

\* get_docstring_coverage(filenames, skip_magic, skip_file_docstring,
\* skip_init, skip_class_def) is called
InitCoverage ==
    /\ ResultCollection__init__
    /\ filenames \in UNION {[1..n -> Paths] : n \in 0..MaxFiles}
    /\ \E a \in LegacySources, b \in OtherSources :
          fs = [p \in Paths |-> IF p = "a.py" THEN a ELSE b]
    /\ analyze_config = DefaultIgnoreConfig
    /\ coverage_flags \in LegacyFlags
    /\ fidx = 1
    /\ pc = IF filenames = <<>> THEN "total" ELSE "loop"
    /\ NoVisitor
    /\ NoCoverage
    /\ NoCall

NextCoverage ==
    \/ CoverageFile
    \/ CoverageFileRaises
    \/ CoverageTotal

SpecCoverage == InitCoverage /\ [][NextCoverage]_vars

----------------------------------------------------------------------------
(* Claims about the result model *)

\* the indices of the records of expds that satisfy Test
Indices(expds, Test(_)) == {i \in 1..Len(expds) : Test(expds[i])}

\* the File instances constructed so far
Instances == 1..Len(heap)

\* C1: File.count_aggregate of a file with status EMPTY is all zero with
\* is_empty set; otherwise is_empty is false, a record with an ignore reason
\* (a value other than None) adds nothing, and a record without one adds 1
\* to needed and 1 to found or to missing by has_docstring.
C1_CountAggregateClassifies ==
    \A f \in Instances :
        LET expds == heap[f].expected_docstrings
            count == File_count_aggregate(heap[f])
            Needed(e) == e.ignore_reason = None
            Found(e) == e.ignore_reason = None /\ e.has_docstring
            Missing(e) == e.ignore_reason = None /\ ~e.has_docstring
        IN  IF heap[f].status = "EMPTY"
            THEN /\ count.needed = 0 /\ count.found = 0 /\ count.missing = 0
                 /\ count.is_empty
            ELSE /\ ~count.is_empty
                 /\ count.needed = Cardinality(Indices(expds, Needed))
                 /\ count.found = Cardinality(Indices(expds, Found))
                 /\ count.missing = Cardinality(Indices(expds, Missing))

\* the count objects of the current collection: one FileCount per File and
\* the AggregatedCount of the collection
CountObjects ==
    {File_count_aggregate(heap[f]) : f \in Instances}
        \cup {ResultCollection_count_aggregate}

\* counts with needed = 0 and found, missing arbitrary: those of the current
\* collection with needed overwritten
VacuousCounts == {[c EXCEPT !.needed = 0] : c \in CountObjects}

\* C2: coverage() of a count with needed = 0 is exactly 100.0, whatever found
\* and missing are, and for needed > 0 it is found * 100 / needed; the
\* aggregate of a collection without files is such a count.
C2_CoverageVacuous ==
    \A c \in CountObjects \cup VacuousCounts :
        /\ c.needed = 0 => coverage(c) = Float100
        /\ c.needed > 0 =>
              /\ coverage(c).den > 0
              /\ coverage(c).num * c.needed = c.found * 100 * coverage(c).den

\* a File whose records are all exempt (needed = 0) beside a collection that
\* needs docstrings
C2_Witness ==
    /\ \E f \in Instances :
          /\ heap[f].expected_docstrings # <<>>
          /\ heap[f].status = "ANALYZED"
          /\ File_count_aggregate(heap[f]).needed = 0
          /\ coverage(File_count_aggregate(heap[f])) = Float100
    /\ ResultCollection_count_aggregate.needed > 0
    /\ coverage(ResultCollection_count_aggregate) = [num |-> 0, den |-> 1]

\* C7: get_file returns one and the same File instance for a path however
\* often it is called, different instances for different paths, the
\* collection holds exactly one File per requested path, and a File it
\* constructs has no records and status ANALYZED.
C7_GetFileIdempotent ==
    /\ [](/\ \A p \in Paths : Cardinality(got[p]) <= 1
          /\ \A p, q \in Paths : p # q => got[p] \cap got[q] = {}
          /\ \A p \in Paths : p \in requested <=> files[p] # 0
          /\ \A p \in requested : got[p] = {files[p]}
          /\ Len(heap) = Cardinality(requested)
          /\ Len(keys) = Cardinality(requested))
    /\ [][\A f \in 1..Len(heap') :
            f > Len(heap) =>
                /\ heap'[f].expected_docstrings = <<>>
                /\ heap'[f].status = "ANALYZED"]_vars

\* a call for a registered path, with two paths registered and records in
\* both Files
C7_Witness ==
    /\ hit
    /\ Cardinality(requested) >= 2
    /\ \A f \in Instances : heap[f].expected_docstrings # <<>>

\* the records of a File as (identifier, has_docstring, ignore_reason) triples
Triples(file) ==
    [i \in 1..Len(expected_docstrings(file)) |->
        <<expected_docstrings(file)[i].node_identifier,
          expected_docstrings(file)[i].has_docstring,
          expected_docstrings(file)[i].ignore_reason>>]

IsPrefix(s, t) == Len(s) <= Len(t) /\ \A i \in 1..Len(s) : s[i] = t[i]

\* C8: expected_docstrings() yields exactly the triples reported through
\* collect_docstring / collect_module_docstring, in call order, a module
\* report under the identifier "module docstring"; no step removes, reorders
\* or changes an earlier record.
C8_AppendOnly ==
    /\ [](\A f \in Instances : Triples(heap[f]) = calls[f])
    /\ [][\A f \in Instances :
            IsPrefix(heap[f].expected_docstrings, heap'[f].expected_docstrings)]_vars

\* a File with a node record followed by a module record
C8_Witness ==
    \E f \in Instances :
        /\ Len(heap[f].expected_docstrings) >= 2
        /\ heap[f].expected_docstrings[1].node_identifier = "foo"
        /\ heap[f].expected_docstrings[2].node_identifier = "module docstring"

zero == AggregatedCount(0, 0, 0, 0, 0)

\* the AggregatedCounts derived from the FileCounts of the current Files
DerivedCounts ==
    {zero} \cup {AggregatedCount__add__(zero, File_count_aggregate(heap[f])) :
                    f \in Instances}

\* the orderings of the Files of the collection
Orderings ==
    {[i \in 1..Len(keys) |-> FilesValues[pi[i]]] :
        pi \in {q \in [1..Len(keys) -> 1..Len(keys)] :
                   \A i, j \in 1..Len(keys) : i # j => q[i] # q[j]}}

\* C9: addition of AggregatedCounts is associative and commutative in every
\* field, and count_aggregate of the collection is the same for every
\* ordering of the per-file counts.
C9_AddAssocComm ==
    LET derived == DerivedCounts
        total == ResultCollection_count_aggregate
    IN  /\ \A A, B \in derived :
              /\ AggregatedCount__add__(A, B) = AggregatedCount__add__(B, A)
              /\ \A C \in derived :
                    AggregatedCount__add__(AggregatedCount__add__(A, B), C)
                        = AggregatedCount__add__(A, AggregatedCount__add__(B, C))
        /\ \A ids \in Orderings : reduce_add(FileCounts(ids), zero) = total

\* two registered Files, an empty one first, one with a missing docstring second
C9_Witness ==
    /\ Len(keys) = 2
    /\ heap[files[keys[1]]].status = "EMPTY"
    /\ File_count_aggregate(heap[files[keys[2]]]).missing > 0
    /\ ResultCollection_count_aggregate.num_empty_files = 1

\* C10: to_legacy gives per file missing = the identifiers, in record order,
\* of exactly the records without ignore reason (None), without docstring and
\* other than the module record; module_doc iff a module record with a
\* docstring exists; missing_count, needed_count, coverage, empty as
\* File.count_aggregate; and overall the values of the collection's
\* count_aggregate.
C10_ToLegacy ==
    LET legacy == to_legacy
        Listed(e) == /\ e.ignore_reason = None
                     /\ ~e.has_docstring
                     /\ e.node_identifier # "module docstring"
        Ident(e) == e.node_identifier
        total == ResultCollection_count_aggregate
    IN  /\ DOMAIN legacy.file_results = {p \in Paths : files[p] # 0}
        /\ \A p \in DOMAIN legacy.file_results :
              LET file == heap[files[p]]
                  listed == SelectSeq(expected_docstrings(file), Listed)
                  res == legacy.file_results[p]
                  count == File_count_aggregate(file)
              IN  /\ res.missing = [i \in 1..Len(listed) |-> listed[i].node_identifier]
                  /\ res.module_doc =
                        (\E i \in 1..Len(file.expected_docstrings) :
                            /\ file.expected_docstrings[i].node_identifier
                                  = "module docstring"
                            /\ file.expected_docstrings[i].has_docstring)
                  /\ res.missing_count = count.missing
                  /\ res.needed_count = count.needed
                  /\ res.coverage = coverage(count)
                  /\ res.empty = count.is_empty
        /\ legacy.total_results.missing_count = total.missing
        /\ legacy.total_results.needed_count = total.needed
        /\ legacy.total_results.coverage = coverage(total)

----------------------------------------------------------------------------
(* Claims about the analysis *)

\* the file a.py is the only file of the run and its analysis is complete
AnalysedOnce == pc = "done" /\ filenames = <<"a.py">>

\* the records of the File of a.py
RecordsOfA == heap[files["a.py"]].expected_docstrings

\* the indices of the statements of module that satisfy Test, in source order
StatementsWith(module, Test(_)) ==
    SelectSeq([i \in 1..Len(module.nodes) |-> i], LAMBDA i : Test(module.nodes[i]))

\* a statement that defines a class, a function or a method
IsConstruct(node) == node.kind \in {"ClassDef", "FunctionDef", "AsyncFunctionDef"}

\* the name of the nearest construct that encloses a statement, None in the
\* module
RECURSIVE EnclosingConstruct(_, _)
EnclosingConstruct(module, i) ==
    LET p == module.nodes[i].parent
    IN IF p = 0 THEN None
       ELSE IF IsConstruct(module.nodes[p]) THEN module.nodes[p].name
       ELSE EnclosingConstruct(module, p)

\* the reasons of the rules that apply to a node, as <<position, reason>>,
\* in the order skip_init, skip_magic, skip_class_def, skip_private,
\* ignore_names, decorator flags
ApplicableRules(cfg, file, prefix, name, decorator) ==
    (IF cfg.skip_init /\ name = "__init__"
     THEN {<<1, "skip-init set to True">>} ELSE {})
    \cup (IF cfg.skip_magic /\ startswith(name, "__") /\ endswith(name, "__")
             /\ name # "__init__"
          THEN {<<2, "skip-magic set to True">>} ELSE {})
    \cup (IF cfg.skip_class_def /\ ~contains(name, "_")
             /\ SubSeq(name, 1, 1) = upper(SubSeq(name, 1, 1))
          THEN {<<3, "skip-class-def set to True">>} ELSE {})
    \cup (IF cfg.skip_private /\ startswith(name, "_") /\ ~startswith(name, "__")
          THEN {<<4, "skip-private set to True">>} ELSE {})
    \cup (IF \E g \in 1..Len(cfg.ignore_names) :
                /\ re_fullmatch(cfg.ignore_names[g][1], basename(file))
                /\ \E k \in 2..Len(cfg.ignore_names[g]) :
                      \/ re_fullmatch(cfg.ignore_names[g][k], name)
                      \/ re_fullmatch(cfg.ignore_names[g][k], prefix \o name)
          THEN {<<5, "matching ignore pattern">>} ELSE {})
    \cup (IF cfg.skip_deleter /\ decorator = "@deleter"
          THEN {<<6, "skip-deleter set to True">>} ELSE {})
    \cup (IF cfg.skip_property /\ decorator = "@property"
          THEN {<<6, "skip-property set to True">>} ELSE {})
    \cup (IF cfg.skip_setter /\ decorator = "@setter"
          THEN {<<6, "skip-setter set to True">>} ELSE {})

\* the reason of the earliest rule among rules, None without a rule
EarliestReason(rules) ==
    IF rules = {} THEN None
    ELSE (CHOOSE r \in rules : \A q \in rules : r[1] <= q[1])[2]

\* the rules that apply to the k-th node of the visitor's result
RulesOf(k) ==
    ApplicableRules(analyze_config, "a.py", base_of(out[k]), out[k].name,
                    out[k].relevant_decorator)

\* C3: the ignore reason recorded for a node is the reason of the earliest
\* rule that applies to it in the order skip_init, skip_magic,
\* skip_class_def, skip_private, ignore_names, decorator flags, and None when
\* no rule applies; it is one value, fixed by the values of the IgnoreConfig
\* fields, the file, the name and the decorator classification alone.
C3_EarliestRuleDecides ==
    AnalysedOnce /\ len_body(fs["a.py"]) # 0 =>
        /\ Len(RecordsOfA) = Len(out) + 1
        /\ \A k \in 1..Len(out) :
              /\ RecordsOfA[k + 1].ignore_reason = EarliestReason(RulesOf(k))
              /\ Cardinality({r[1] : r \in RulesOf(k)}) = Cardinality(RulesOf(k))

\* a node to which a name rule, the pattern rule and a decorator rule apply
\* got the reason of the name rule
C3_Witness ==
    /\ AnalysedOnce
    /\ \E k \in 1..Len(out) :
          /\ Cardinality(RulesOf(k)) >= 3
          /\ RecordsOfA[k + 1].ignore_reason = "skip-private set to True"

\* the names get_docstring_coverage exempts under its flags
Exempted(node) ==
    \/ (coverage_flags.skip_init /\ node.name = "__init__")
    \/ (coverage_flags.skip_magic /\ startswith(node.name, "__")
           /\ endswith(node.name, "__") /\ node.name # "__init__")
    \/ (coverage_flags.skip_class_def /\ ~contains(node.name, "_")
           /\ SubSeq(node.name, 1, 1) = upper(SubSeq(node.name, 1, 1)))

\* C4: in the result of a file with a module docstring (skip_file_docstring
\* off), a node matched by an enabled rule (skip_init, skip_magic,
\* skip_class_def) is left out of needed, found and missing with or without
\* a docstring: needed is 1 plus the nodes no rule matches, missing the
\* undocumented ones among those, and the missing list names exactly those.
C4_ExemptionIgnoresDocstring ==
    \A p \in DOMAIN file_results :
        (fs[p].doc # None /\ ~coverage_flags.skip_file_docstring) =>
            LET nodes == fs[p].nodes
                counted == {i \in 1..Len(nodes) : ~Exempted(nodes[i])}
                undocumented == {i \in counted : nodes[i].doc = None}
            IN /\ file_results[p].needed_count = 1 + Cardinality(counted)
               /\ file_results[p].missing_count = Cardinality(undocumented)
               /\ Len(file_results[p].missing) = Cardinality(undocumented)

\* the two accepted forms of an excuse comment: the inherit form, and the
\* excuse form with its reason between grave accents
ExcuseForms ==
    {<<Lit("#"), WsRun, Lit("docstr-coverage"), WsRun, Lit(":"), WsRun,
       Lit("inherit"), Opt("ed"), WsRun>>,
     <<Lit("#"), WsRun, Lit("docstr-coverage"), WsRun, Lit(":"), WsRun,
       Lit("excuse"), Opt("d"), WsRun, Lit(Grave), AnyRun, Lit(Grave), WsRun>>}

\* a comment whose whole text has one of the two forms
CorrectlyFormatted(comment) ==
    comment # None /\ \E form \in ExcuseForms : re_fullmatch(form, comment)

\* a correctly formatted excuse comment stands above the node, on a line of
\* its own or behind code, with only blank and decorator lines below it
ExcusedAbove(node) ==
    \E i \in 1..Len(node.lines_above) :
        /\ node.lines_above[i].kind \in {"comment", "code"}
        /\ CorrectlyFormatted(node.lines_above[i].comment)
        /\ \A j \in (i + 1)..Len(node.lines_above) :
              node.lines_above[j].kind \in {"blank", "decorator"}

\* the node has a docstring that is not blank
RealDocstring(node) == node.doc # None /\ strip(node.doc) # ""

\* the k-th class or function of a.py
HelperNode(k) == fs["a.py"].nodes[StatementsWith(fs["a.py"],
                     LAMBDA node : node.kind \in HelperKinds)[k]]

\* C5: a class or function without a real docstring and with a correctly
\* formatted excuse comment above it (only blank and decorator lines in
\* between) is recorded with has_docstring = TRUE and, not being ignored,
\* counts as found; one with a real docstring likewise; one with neither is
\* recorded with has_docstring = FALSE and counts as missing.
C5_ExcuseCountsAsDocstring ==
    AnalysedOnce /\ len_body(fs["a.py"]) # 0 =>
        LET helpers == StatementsWith(fs["a.py"],
                           LAMBDA node : node.kind \in HelperKinds)
            documented == {k \in 1..Len(helpers) :
                              \/ RealDocstring(HelperNode(k))
                              \/ ExcusedAbove(HelperNode(k))}
            needed == {k \in 1..Len(helpers) :
                          RecordsOfA[k + 1].ignore_reason = None}
            count == File_count_aggregate(heap[files["a.py"]])
            module_found == IF RecordsOfA[1].ignore_reason = None
                               /\ RecordsOfA[1].has_docstring THEN 1 ELSE 0
            module_missing == IF RecordsOfA[1].ignore_reason = None
                                 /\ ~RecordsOfA[1].has_docstring THEN 1 ELSE 0
        IN /\ Len(RecordsOfA) = Len(helpers) + 1
           /\ \A k \in 1..Len(helpers) :
                 RecordsOfA[k + 1].has_docstring = (k \in documented)
           /\ count.found = module_found + Cardinality(needed \cap documented)
           /\ count.missing = module_missing + Cardinality(needed \ documented)

\* C6: for a file that is not empty, the records of the file are the module
\* record followed by one record per class, function, method and async
\* function, nested ones included, in source order: N + 1 records, none
\* dropped and none twice.
C6_OneRecordPerConstruct ==
    AnalysedOnce /\ len_body(fs["a.py"]) # 0 =>
        LET constructs == StatementsWith(fs["a.py"], IsConstruct)
        IN /\ Len(RecordsOfA) = Len(constructs) + 1
           /\ RecordsOfA[1].node_identifier = "module docstring"
           /\ \A k \in 1..Len(constructs) :
                 LET prefix == EnclosingConstruct(fs["a.py"], constructs[k])
                     name == fs["a.py"].nodes[constructs[k]].name
                 IN RecordsOfA[k + 1].node_identifier =
                        IF prefix = None THEN name ELSE prefix \o "." \o name

\* get_docstring_coverage has left its loop: it returned or raised
Finished == pc \in {"returned", "ZeroDivisionError", "StopIteration"}

\* C11: a file without any top-level statement has, in the per-file result,
\* needed_count = 0, missing_count = 0, coverage = 100.0, empty = True,
\* module_doc = False and an empty missing list; every pass over such a file
\* adds 1 to the number of empty files; and when it is the only input the
\* run raises nothing and the overall result is missing_count = 0,
\* needed_count = 0, coverage = 100.
C11_EmptyFile ==
    /\ \A p \in DOMAIN file_results :
          len_body(fs[p]) = 0 =>
              /\ file_results[p].needed_count = 0
              /\ file_results[p].missing_count = 0
              /\ file_results[p].coverage = Float100
              /\ file_results[p].empty
              /\ ~file_results[p].module_doc
              /\ file_results[p].missing = <<>>
    /\ Finished =>
          empty_files = Cardinality({i \in 1..Len(filenames) :
                                        len_body(fs[filenames[i]]) = 0})
    /\ (Finished /\ Len(filenames) = 1 /\ len_body(fs[filenames[1]]) = 0) =>
          /\ pc = "returned"
          /\ total_results.missing_count = 0
          /\ total_results.needed_count = 0
          /\ total_results.coverage = Float100

\* what the definitions of a file add to (needed, covered, missing names)
nodes_only(p) == print_symbols(coverage_flags, legacy_tree(fs[p])[3], <<0, 0, <<>> >>)

\* C12: with skip_file_docstring = True the module docstring of a non-empty
\* file adds nothing to needed, found or missing, with or without a module
\* docstring: the file's counts are those of its definitions alone.  A
\* module without docstring, with one documented and one undocumented
\* function, gives needed 2, found 1, missing 1, coverage 50.0 with the flag
\* and needed 3, found 1, missing 2 without it.
C12_SkipFileDocstring ==
    \A p \in DOMAIN file_results :
        /\ (coverage_flags.skip_file_docstring /\ len_body(fs[p]) > 0) =>
              /\ file_results[p].needed_count = nodes_only(p)[1]
              /\ file_results[p].missing_count = nodes_only(p)[1] - nodes_only(p)[2]
        /\ (fs[p] = TwoFunctions(None) /\ coverage_flags.skip_file_docstring) =>
              /\ file_results[p].needed_count = 2
              /\ file_results[p].needed_count - file_results[p].missing_count = 1
              /\ file_results[p].missing_count = 1
              /\ file_results[p].coverage = TrueDiv(50, 1)
        /\ (fs[p] = TwoFunctions(None) /\ ~coverage_flags.skip_file_docstring) =>
              /\ file_results[p].needed_count = 3
              /\ file_results[p].needed_count - file_results[p].missing_count = 1
              /\ file_results[p].missing_count = 2

\* C13: File.status is a one-way state machine: a File is ANALYZED when it
\* is created, the only change of status is from ANALYZED to EMPTY, and a
\* File that is EMPTY stays EMPTY in every later step.
C13_StatusOneWay ==
    [][/\ \A f \in 1..Len(heap') :
              f > Len(heap) => heap'[f].status = "ANALYZED"
       /\ \A f \in 1..Len(heap) :
              /\ heap'[f].status # heap[f].status =>
                     heap[f].status = "ANALYZED" /\ heap'[f].status = "EMPTY"
              /\ heap[f].status = "EMPTY" => heap'[f].status = "EMPTY"]_vars

\* the positions of the input list whose file cannot be parsed
Unparsable == {i \in 1..Len(filenames) : fs[filenames[i]] = InvalidSource}

\* get_docstring_coverage is over: it returned or an exception left it
RunOver == Finished \/ pc = "SyntaxError"

\* the sum of f over the passes 1..n of the loop
RECURSIVE SumOver(_, _)
SumOver(f(_), n) == IF n = 0 THEN 0 ELSE f(n) + SumOver(f, n - 1)

\* C14: a file that cannot be parsed ends the analysis in a SyntaxError
\* raised at that file, an outcome different from every other one; the file
\* gets no entry in the per-file results, and it adds nothing to the needed
\* and covered docstrings or to the empty files counted up to the failure.
C14_ParseFailureIsError ==
    /\ \A p \in Paths : fs[p] = InvalidSource => p \notin DOMAIN file_results
    /\ (RunOver /\ Unparsable # {}) =>
          /\ pc = "SyntaxError"
          /\ fidx \in Unparsable
          /\ \A i \in Unparsable : fidx <= i
    /\ pc = "SyntaxError" =>
          LET needed(i) == file_results[filenames[i]].needed_count
              missing(i) == file_results[filenames[i]].missing_count
              empty(i) == IF file_results[filenames[i]].empty THEN 1 ELSE 0
          IN /\ fs[this_file] = InvalidSource
             /\ total_docs_needed = SumOver(needed, fidx - 1)
             /\ total_docs_needed - total_docs_covered = SumOver(missing, fidx - 1)
             /\ empty_files = SumOver(empty, fidx - 1)

\* a file was analysed and the next one could not be parsed
C14_Witness ==
    /\ pc = "SyntaxError"
    /\ fidx = 2
    /\ fs[filenames[2]] = InvalidSource
    /\ filenames[1] \in DOMAIN file_results

\* C15: a parse failure in one file does not abort the run: the call
\* returns, and every other file of the input list, before and after the
\* failing one, has its entry in the per-file results.
C15_ParseFailureDoesNotAbort ==
    (RunOver /\ Unparsable # {}) =>
        /\ pc # "SyntaxError"
        /\ \A i \in 1..Len(filenames) :
               i \notin Unparsable => filenames[i] \in DOMAIN file_results

-----------------------------------------------------------------------------
(* The ignore_names decision called on its own *)

MaxGroups == 2

\* regexes for file names: a and .*
FileRegexes == {<<Lit("a")>>, <<AnyRun>>}

\* regexes for node names: foo, fo and Foo\.foo
NameRegexes == {<<Lit("foo")>>, <<Lit("fo")>>, <<Lit("Foo.foo")>>}

\* pattern groups: a file regex and no, one or two name regexes
PatternGroups ==
    {<<f>> : f \in FileRegexes}
        \cup {<<f, n>> : f \in FileRegexes, n \in NameRegexes}
        \cup {<<f, n, m>> : f \in FileRegexes, n \in NameRegexes, m \in NameRegexes}

\* the nodes: function foo of a module and method foo of class Foo, in a
\* file a.py and in a file b.py of a directory
DecidedNodes ==
    [filename : {"a.py", "src/b.py"}, base : {"", "Foo."}, name : {"foo"}]

InitIgnore ==
    /\ ResultCollection__init__
    /\ filenames = <<>>
    /\ fs = [p \in Paths |-> Module(None, FALSE, <<>>)]
    /\ \E ignore_names \in UNION {[1..n -> PatternGroups] : n \in 0..MaxGroups} :
          analyze_config = IgnoreConfig(ignore_names, FALSE, FALSE, FALSE, FALSE, FALSE, FALSE, TRUE, TRUE)
    /\ coverage_flags = [skip_magic |-> FALSE, skip_file_docstring |-> FALSE,
                         skip_init |-> FALSE, skip_class_def |-> FALSE]
    /\ fidx = 1
    /\ pc = "call"
    /\ NoVisitor
    /\ NoCoverage
    /\ args \in DecidedNodes
    /\ ret = <<>>

\* the decision for the node args under analyze_config.ignore_names
DoIgnoreNode ==
    /\ pc = "call"
    /\ ret' = <<do_ignore_node(analyze_config.ignore_names, args.filename,
                               args.base, args.name)>>
    /\ pc' = "returned"
    /\ UNCHANGED <<rvars, ivars, args, fidx, recorded, vvars, lvars>>

NextIgnore == DoIgnoreNode

SpecIgnore == InitIgnore /\ [][NextIgnore]_vars

\* group g of the configuration has a first regex that fully matches the
\* base name of the file and a further regex that fully matches the bare
\* name or the prefixed name of the node
FileMatches(g) ==
    /\ Len(analyze_config.ignore_names[g]) >= 1
    /\ re_fullmatch(analyze_config.ignore_names[g][1], basename(args.filename))

NameMatches(g) ==
    \E k \in 2..Len(analyze_config.ignore_names[g]) :
        \/ re_fullmatch(analyze_config.ignore_names[g][k], args.name)
        \/ re_fullmatch(analyze_config.ignore_names[g][k], args.base \o args.name)

\* C16: the ignore_names decision is true iff some pattern group has a
\* first regex that fully matches the base name of the file (no directory,
\* no extension) and a further regex that fully matches the bare node name
\* or the parent prefix followed by the node name; a group whose file regex
\* matches while none of its name regexes does leaves the decision to the
\* later groups.
C16_IgnoreNamesDecision ==
    pc = "returned" =>
        /\ ret[1] = (\E g \in 1..Len(analyze_config.ignore_names) :
                        FileMatches(g) /\ NameMatches(g))
        /\ basename("a.py") = "a" /\ basename("src/b.py") = "b"
        /\ ~re_fullmatch(<<Lit("fo")>>, "foo") /\ ~re_fullmatch(<<Lit("a")>>, "b")
        /\ re_fullmatch(<<Lit("Foo.foo")>>, "Foo.foo") /\ re_fullmatch(<<AnyRun>>, "b")

\* the first group matches the file but not the name, the second group
\* matches both through the prefixed name, and the node is ignored
C16_Witness ==
    /\ pc = "returned"
    /\ Len(analyze_config.ignore_names) = 2
    /\ FileMatches(1) /\ ~NameMatches(1)
    /\ FileMatches(2) /\ NameMatches(2)
    /\ args.filename = "src/b.py"
    /\ ~re_fullmatch(analyze_config.ignore_names[2][2], args.name)
    /\ ret[1]

-----------------------------------------------------------------------------
(* Claims about the decorator flags *)

\* the definition of a file of RuleSources, and the counts of the file
RuleNode == fs["a.py"].nodes[1]
CountOfA == File_count_aggregate(heap[files["a.py"]])

\* a.py is one of RuleSources, analysed alone, under a configuration in
\* which no rule but the decorator flags is enabled
DecoratorRun ==
    /\ AnalysedOnce
    /\ fs["a.py"] \in RuleSources
    /\ analyze_config.ignore_names = <<>>
    /\ ~analyze_config.skip_magic /\ ~analyze_config.skip_init
    /\ ~analyze_config.skip_class_def /\ ~analyze_config.skip_private
    /\ ~analyze_config.skip_file_docstring

\* the decorator of the definition as the source file spells it
Decorated(decorator) == RuleNode.decorator_list = <<decorator>>

\* the definition of a.py is not counted: the documented module is the one
\* needed docstring of the file
NodeExempt == CountOfA.needed = 1 /\ CountOfA.found = 1 /\ CountOfA.missing = 0

\* C17: with skip_property, skip_setter or skip_deleter enabled exactly the
\* nodes decorated with property, x.setter or x.deleter respectively are
\* left out of needed, documented or not, and no other node is; the default
\* IgnoreConfig enables skip_setter and skip_deleter but not skip_property,
\* so by default an undocumented setter or deleter is exempt and an
\* undocumented property is missing.
C17_DecoratorFlags ==
    /\ DecoratorRun =>
          (NodeExempt <=>
              \/ analyze_config.skip_property /\ Decorated(Name("property"))
              \/ analyze_config.skip_setter /\ Decorated(Attribute("setter"))
              \/ analyze_config.skip_deleter /\ Decorated(Attribute("deleter")))
    /\ DefaultIgnoreConfig.skip_setter /\ DefaultIgnoreConfig.skip_deleter
    /\ ~DefaultIgnoreConfig.skip_property
    /\ (DecoratorRun /\ analyze_config = DefaultIgnoreConfig /\ RuleNode.doc = None) =>
          /\ (Decorated(Attribute("setter")) \/ Decorated(Attribute("deleter"))) =>
                 NodeExempt
          /\ Decorated(Name("property")) => CountOfA.needed = 2 /\ CountOfA.missing = 1

\* an undocumented setter was analysed under the default IgnoreConfig
C17_Witness ==
    /\ DecoratorRun
    /\ analyze_config = DefaultIgnoreConfig
    /\ RuleNode.doc = None
    /\ Decorated(Attribute("setter"))
    /\ NodeExempt

-----------------------------------------------------------------------------
(* cli.py: parse_ignore_patterns_from_dict *)

MaxPatterns == 2

\* Python values by type: str and int (written out in s), set, list (its
\* items in order) and dict (its items in order, each <<key, value>>)
Str(s) == [type |-> "str", s |-> s, items |-> <<>>]
Number(s) == [type |-> "int", s |-> s, items |-> <<>>]
SetValue == [type |-> "set", s |-> "", items |-> <<>>]
List(items) == [type |-> "list", s |-> "", items |-> items]
Dict(items) == [type |-> "dict", s |-> "", items |-> items]

\* isinstance(x, str), isinstance(x, list), isinstance(x, dict)
isinstance(x, type) == x.type = type

\* _assert_valid_key_value(k, v) for a key k and the list v of the items of
\* a value: the exception it raises, None if it returns
_assert_valid_key_value(k, v) ==
    IF ~isinstance(k, "str") THEN "TypeError"
    ELSE IF Len(strip(k.s)) = 0 THEN "ValueError"
    ELSE IF ~(\A i \in 1..Len(v) : isinstance(v[i], "str")) /\ Len(v) > 0
    THEN "TypeError"
    ELSE IF ~(\A i \in 1..Len(v) : Len(strip(v[i].s)) > 0) THEN "ValueError"
    ELSE None

\* the loop over ignore_patterns_dict.items() from item i on
RECURSIVE patterns_loop(_, _, _)
patterns_loop(items, i, result_list) ==
    IF i > Len(items) THEN [raised |-> None, value |-> result_list]
    ELSE LET key == items[i][1]
             value == IF ~isinstance(items[i][2], "list")
                      THEN <<items[i][2]>> ELSE items[i][2].items
             raised == _assert_valid_key_value(key, value)
         IN IF raised # None THEN [raised |-> raised, value |-> <<>>]
            ELSE patterns_loop(items, i + 1, Append(result_list, <<key>> \o value))

parse_ignore_patterns_from_dict(ignore_patterns_dict) ==
    IF ~isinstance(ignore_patterns_dict, "dict")
    THEN [raised |-> "TypeError", value |-> <<>>]
    ELSE patterns_loop(ignore_patterns_dict.items, 1, <<>>)

\* keys and values of the dicts passed in: strings, a blank string, a number,
\* a set, and lists of up to MaxPatterns strings, blank strings and numbers
PatternKeys == {Str("a"), Str(".*"), Str(" "), Number("0")}
PatternItems == {Str("x"), Str(" "), Number("0")}
PatternValues ==
    {Str("x"), Str(""), Str(" "), Number("0"), SetValue}
        \cup {List(v) : v \in UNION {[1..n -> PatternItems] : n \in 0..MaxPatterns}}

\* the arguments: a string, and the dicts of no, one or two items
PatternDicts ==
    {Str("not_a_dict"), Dict(<<>>)}
        \cup {Dict(<< <<k, v>> >>) : k \in PatternKeys, v \in PatternValues}
        \cup {Dict(i) : i \in {j \in (PatternKeys \X PatternValues) \X (PatternKeys \X PatternValues) : j[1][1] # j[2][1]}}

InitPatterns ==
    /\ ResultCollection__init__
    /\ filenames = <<>>
    /\ fs = [p \in Paths |-> Module(None, FALSE, <<>>)]
    /\ analyze_config = DefaultIgnoreConfig
    /\ coverage_flags = [skip_magic |-> FALSE, skip_file_docstring |-> FALSE,
                         skip_init |-> FALSE, skip_class_def |-> FALSE]
    /\ fidx = 1
    /\ pc = "call"
    /\ NoVisitor
    /\ NoCoverage
    /\ args \in PatternDicts
    /\ ret = <<>>

\* parse_ignore_patterns_from_dict(args) returns or raises
ParseIgnorePatterns ==
    /\ pc = "call"
    /\ LET result == parse_ignore_patterns_from_dict(args)
       IN /\ ret' = result.value
          /\ pc' = IF result.raised # None THEN result.raised ELSE "returned"
    /\ UNCHANGED <<rvars, ivars, args, fidx, recorded, vvars, lvars>>

NextPatterns == ParseIgnorePatterns

SpecPatterns == InitPatterns /\ [][NextPatterns]_vars

\* a string that is empty or consists of whitespace
Blank(x) == isinstance(x, "str") /\ \A i \in 1..Len(x.s) : SubSeq(x.s, i, i) \in Whitespace

\* a value that is a string or a non-empty list of strings
WellTyped(x) ==
    \/ isinstance(x, "str")
    \/ /\ isinstance(x, "list")
       /\ Len(x.items) > 0
       /\ \A i \in 1..Len(x.items) : isinstance(x.items[i], "str")

\* the argument is no dict, or it has a key that is no string or a value of a
\* wrong type
TypeDefect(d) ==
    \/ ~isinstance(d, "dict")
    \/ \E i \in 1..Len(d.items) :
          ~isinstance(d.items[i][1], "str") \/ ~WellTyped(d.items[i][2])

\* the dict has a blank key or a blank pattern
ValueDefect(d) ==
    /\ isinstance(d, "dict")
    /\ \E i \in 1..Len(d.items) :
          \/ Blank(d.items[i][1])
          \/ Blank(d.items[i][2])
          \/ \E j \in 1..Len(d.items[i][2].items) : Blank(d.items[i][2].items[j])

\* the list for one item of a valid dict: the key followed by its patterns
GroupOf(item) ==
    <<item[1]>> \o (IF isinstance(item[2], "str") THEN <<item[2]>> ELSE item[2].items)

\* C18: parse_ignore_patterns_from_dict raises for every invalid shape:
\* TypeError for an argument that is no dict, a key that is no string, or a
\* value that is neither a string nor a non-empty list of strings (an empty
\* list included), ValueError for a blank key or a blank pattern; for valid
\* input it returns one list per key, in dict order, holding the key
\* followed by its patterns.
C18_PatternShapes ==
    pc # "call" =>
        /\ (TypeDefect(args) /\ ~ValueDefect(args)) => pc = "TypeError"
        /\ (ValueDefect(args) /\ ~TypeDefect(args)) => pc = "ValueError"
        /\ (TypeDefect(args) /\ ValueDefect(args)) => pc \in {"TypeError", "ValueError"}
        /\ (~TypeDefect(args) /\ ~ValueDefect(args)) =>
              /\ pc = "returned"
              /\ ret = [i \in 1..Len(args.items) |-> GroupOf(args.items[i])]

-----------------------------------------------------------------------------
(* cli.py: execute *)

\* the characters of the paths in the order of their code points
CodePoints == "./_abcdefghijklmnopqrstuvwxyz"

\* ord(c) up to the order
ord(c) == CHOOSE i \in 1..Len(CodePoints) : SubSeq(CodePoints, i, i) = c

\* a < b for strings
RECURSIVE str_lt(_, _)
str_lt(a, b) ==
    IF b = "" THEN FALSE
    ELSE IF a = "" THEN TRUE
    ELSE IF SubSeq(a, 1, 1) # SubSeq(b, 1, 1)
    THEN ord(SubSeq(a, 1, 1)) < ord(SubSeq(b, 1, 1))
    ELSE str_lt(SubSeq(a, 2, Len(a)), SubSeq(b, 2, Len(b)))

\* sorted(list) for a list of strings, by insertion
RECURSIVE sorted(_)
sorted(list) ==
    IF list = <<>> THEN <<>>
    ELSE LET rest == sorted(Tail(list))
             before == SelectSeq(rest, LAMBDA x : ~str_lt(Head(list), x))
             after == SelectSeq(rest, LAMBDA x : str_lt(Head(list), x))
         IN before \o <<Head(list)>> \o after

\* line.split(): the runs of characters of line between whitespace
RECURSIVE split_from(_, _, _)
split_from(line, word, words) ==
    IF line = ""
    THEN (IF word = "" THEN words ELSE Append(words, word))
    ELSE IF SubSeq(line, 1, 1) \in Whitespace
    THEN split_from(SubSeq(line, 2, Len(line)), "",
                    IF word = "" THEN words ELSE Append(words, word))
    ELSE split_from(SubSeq(line, 2, Len(line)), word \o SubSeq(line, 1, 1), words)

split(line) == split_from(line, "", <<>>)

\* re.compile(pattern) for the patterns .* and the patterns without special
\* characters
re_compile(pattern) == IF pattern = ".*" THEN <<AnyRun>> ELSE <<Lit(pattern)>>

\* the directory docs holds the file notes.txt; the paths a.py, b.py and
\* notes.txt are files: os.walk(path) as <<dirpath, filenames>> triples
\* without dirnames
os_walk(path) == IF path = "docs" THEN << <<"docs", <<"notes.txt">> >> >> ELSE <<>>

\* os.path.join(dirpath, name)
path_join(dirpath, name) == dirpath \o "/" \o name

do_include_filepath(filepath, exclude_re) ==
    IF ~endswith(filepath, ".py") THEN FALSE
    ELSE IF exclude_re # <<>> /\ re_match(exclude_re[1], filepath) THEN FALSE
    ELSE TRUE

\* the walk over path: the candidates of every directory that are included
RECURSIVE walk_collect(_, _, _)
walk_collect(walked, exclude_re, filepaths) ==
    IF walked = <<>> THEN filepaths
    ELSE LET dirpath == Head(walked)[1]
             candidates == [i \in 1..Len(Head(walked)[2]) |->
                               path_join(dirpath, Head(walked)[2][i])]
         IN walk_collect(Tail(walked), exclude_re,
                filepaths \o SelectSeq(candidates,
                                 LAMBDA c : do_include_filepath(c, exclude_re)))

\* the loop of collect_filepaths over paths
RECURSIVE collect_loop(_, _, _)
collect_loop(paths, exclude_re, filepaths) ==
    IF paths = <<>> THEN filepaths
    ELSE IF endswith(Head(paths), ".py")
    THEN collect_loop(Tail(paths), exclude_re, Append(filepaths, Head(paths)))
    ELSE collect_loop(Tail(paths), exclude_re,
            walk_collect(os_walk(Head(paths)), exclude_re, filepaths))

\* collect_filepaths(*paths, follow_links, exclude); exclude_re is <<>> for
\* None and <<regex>> for a pattern
collect_filepaths(paths, exclude) ==
    LET exclude_re == IF Truthy(exclude) THEN <<re_compile(exclude)>> ELSE <<>>
    IN sorted(collect_loop(paths, exclude_re, <<>>))

\* parse_ignore_names_file for a file that exists with the given lines
parse_ignore_names_file(lines) ==
    LET kept == SelectSeq(lines, LAMBDA line : contains(line, " "))
    IN [i \in 1..Len(kept) |->
           [k \in 1..Len(split(kept[i])) |-> Str(split(kept[i])[k])]]

\* the pattern groups as the analysis compiles them
compile_groups(groups) ==
    [g \in 1..Len(groups) |->
        [k \in 1..Len(groups[g]) |->
            re_compile(groups[g][k].s)]]

\* a float with an integer value
Float(i) == [num |-> i, den |-> 1]

\* coverage < fail_under for two floats
lt_float(a, b) == a.num * b.den < b.num * a.den

\* mutant of the exit status: coverage equal to fail_under fails too
exit_status_leq(coverage_, fail_under) == IF ~lt_float(fail_under, coverage_) THEN 1 ELSE 0

\* the end of execute: SystemExit(1) below fail_under, else SystemExit(0)
exit_status(coverage_, fail_under) == IF lt_float(coverage_, fail_under) THEN 1 ELSE 0

\* the renaming of the deprecated options of kwargs: the exception raised,
\* or the options after it
RECURSIVE rename_deprecated(_, _)
rename_deprecated(kwargs, names) ==
    IF names = <<>> THEN [raised |-> None, kwargs |-> kwargs]
    ELSE LET deprecated_name == Head(names)[1]
             name == Head(names)[2]
         IN IF deprecated_name \in kwargs.flags
            THEN IF name \in kwargs.flags
                 THEN [raised |-> "ValueError", kwargs |-> kwargs]
                 ELSE rename_deprecated(
                         [kwargs EXCEPT !.flags = (@ \ {deprecated_name}) \cup {name}],
                         Tail(names))
            ELSE rename_deprecated(kwargs, Tail(names))

DeprecatedNames ==
    << <<"skipmagic", "skip_magic">>, <<"skipfiledoc", "skip_file_doc">>,
       <<"skipinit", "skip_init">>, <<"skipclassdef", "skip_class_def">>,
       <<"followlinks", "follow_links">> >>

\* the handling of the deprecated --failunder; an option that is not given
\* is <<>>, a given one <<value>>
handle_fail_under(kwargs) ==
    IF kwargs.failunder # <<>>
    THEN IF kwargs.fail_under # Float100
         THEN [raised |-> "ValueError", kwargs |-> kwargs]
         ELSE [raised |-> None,
               kwargs |-> [kwargs EXCEPT !.fail_under = kwargs.failunder[1],
                                         !.failunder = <<>>]]
    ELSE [raised |-> None, kwargs |-> kwargs]

\* the choice of the ignore patterns: the ignore file, given as <<lines>> if
\* it exists, or the ignore_patterns of the configuration file, given as
\* <<dict>> if present
choose_ignore_names(kwargs) ==
    IF kwargs.ignore_names_file # <<>> /\ kwargs.ignore_patterns # <<>>
    THEN [raised |-> "ValueError", value |-> <<>>]
    ELSE IF kwargs.ignore_names_file # <<>>
    THEN [raised |-> None, value |-> parse_ignore_names_file(kwargs.ignore_names_file[1])]
    ELSE IF kwargs.ignore_patterns # <<>>
    THEN parse_ignore_patterns_from_dict(kwargs.ignore_patterns[1])
    ELSE [raised |-> None, value |-> <<>>]

\* execute(paths, **kwargs) up to the call of analyze: it raises, exits
\* without Python files, or starts the analysis of all_paths
Execute ==
    /\ pc = "execute"
    /\ LET renamed == rename_deprecated(args, DeprecatedNames)
           handled == handle_fail_under(renamed.kwargs)
           kwargs == handled.kwargs
           all_paths == collect_filepaths(kwargs.paths, kwargs.exclude)
           ignore_names == choose_ignore_names(kwargs)
       IN IF renamed.raised # None
          THEN /\ pc' = renamed.raised
               /\ UNCHANGED <<args, ret, filenames, analyze_config>>
          ELSE IF handled.raised # None
          THEN /\ pc' = handled.raised
               /\ args' = renamed.kwargs
               /\ UNCHANGED <<ret, filenames, analyze_config>>
          ELSE IF Len(all_paths) < 1
          THEN /\ pc' = "SystemExit"
               /\ ret' = IF kwargs.accept_empty THEN <<0>> ELSE <<1>>
               /\ args' = kwargs
               /\ UNCHANGED <<filenames, analyze_config>>
          ELSE IF ignore_names.raised # None
          THEN /\ pc' = ignore_names.raised
               /\ args' = kwargs
               /\ UNCHANGED <<ret, filenames, analyze_config>>
          ELSE /\ pc' = "open"
               /\ args' = kwargs
               /\ filenames' = all_paths
               /\ analyze_config' =
                     IgnoreConfig(compile_groups(ignore_names.value),
                                  "skip_magic" \in kwargs.flags,
                                  "skip_file_doc" \in kwargs.flags,
                                  "skip_init" \in kwargs.flags,
                                  "skip_class_def" \in kwargs.flags,
                                  "skip_private" \in kwargs.flags,
                                  "skip_property" \in kwargs.flags,
                                  ~("include_setter" \in kwargs.flags),
                                  ~("include_deleter" \in kwargs.flags))
               /\ ret' = ret
    /\ UNCHANGED <<rvars, fs, coverage_flags, fidx, recorded, vvars, lvars>>

\* execute after analyze returned: results.to_legacy() and the exit
Exit ==
    /\ pc = "done"
    /\ ret' = <<exit_status(to_legacy.total_results.coverage, args.fail_under)>>
    /\ pc' = "SystemExit"
    /\ UNCHANGED <<rvars, ivars, args, fidx, recorded, vvars, lvars>>

\* the source files of a command-line run: an empty file, a documented
\* function in a module without and with docstring, and an undocumented
\* function in an if statement
CliSources ==
    {EmptySource,
     Module(None, FALSE, <<Node("FunctionDef", "foo", 0, "doc", <<CodeLine>>, <<>>)>>),
     Module("doc", FALSE, <<Node("FunctionDef", "foo", 0, "doc", <<CodeLine>>, <<>>)>>),
     Module("doc", FALSE, <<Node("If", "a", 0, None, <<CodeLine>>, <<>>), Node("FunctionDef", "foo", 1, None, <<CodeLine>>, <<>>)>>)}

\* the options of a command-line run; flags holds the names of the flags
\* that are set
CliKwargs ==
    [paths : {<<>>, <<"a.py">>, <<"docs">>, <<"notes.txt">>, <<"b.py", "a.py">>,
              <<"docs", "a.py">>},
     exclude : {None, ".*"},
     flags : {{}, {"skipfiledoc"}, {"skip_file_doc"}, {"skipfiledoc", "skip_file_doc"}},
     accept_empty : BOOLEAN,
     fail_under : {Float(0), Float(50), Float100},
     failunder : {<<>>, <<Float(50)>>},
     ignore_names_file : {<<>>, << <<".* bar", "comment">> >>},
     ignore_patterns : {<<>>, <<Dict(<< <<Str(".*"), Str("bar")>> >>)>>,
                        <<Dict(<< <<Str("a"), Number("0")>> >>)>>}]

InitCli ==
    /\ ResultCollection__init__
    /\ filenames = <<>>
    /\ \E a \in CliSources :
          fs = [p \in Paths |-> IF p = "a.py" THEN a
                                ELSE Module("doc", FALSE, <<Node("FunctionDef", "foo", 0, None, <<CodeLine>>, <<>>)>>)]
    /\ analyze_config = DefaultIgnoreConfig
    /\ coverage_flags = [skip_magic |-> FALSE, skip_file_docstring |-> FALSE,
                         skip_init |-> FALSE, skip_class_def |-> FALSE]
    /\ fidx = 1
    /\ pc = "execute"
    /\ NoVisitor
    /\ NoCoverage
    /\ args \in CliKwargs
    /\ ret = <<>>

NextCli ==
    \/ Execute
    \/ VisitModule
    \/ VisitHelper
    \/ GenericVisit
    \/ Return
    \/ AnalyzeGetFile
    \/ ReportModule
    \/ ReportNode
    \/ NextFile
    \/ Exit

SpecCli == InitCli /\ [][NextCli]_vars

\* the Python files among the paths given on the command line: docs holds
\* none, and notes.txt is none
PythonFilesFound == {i \in 1..Len(args.paths) : args.paths[i] \in Paths}

\* the records that need a docstring, as <<file, position>>, in the files
\* that are not empty
NeededRecords ==
    {r \in Paths \X (1..(MaxNodes + 1) * MaxFiles) :
        /\ files[r[1]] # 0
        /\ heap[files[r[1]]].status # "EMPTY"
        /\ r[2] <= Len(heap[files[r[1]]].expected_docstrings)
        /\ ~Truthy(heap[files[r[1]]].expected_docstrings[r[2]].ignore_reason)}

FoundRecords ==
    {r \in NeededRecords : heap[files[r[1]]].expected_docstrings[r[2]].has_docstring}

\* 100 * found < fail_under * needed, with nothing needed counting as 100 %
BelowFailUnder ==
    IF NeededRecords = {} THEN lt_float(Float100, args.fail_under)
    ELSE 100 * Cardinality(FoundRecords) * args.fail_under.den
            < args.fail_under.num * Cardinality(NeededRecords)

\* the options of the run are in conflict or the ignore patterns are invalid
ConfigurationError ==
    \/ {"skipfiledoc", "skip_file_doc"} \subseteq args.flags
    \/ args.failunder # <<>>
    \/ args.ignore_names_file # <<>> /\ args.ignore_patterns # <<>>
    \/ /\ args.ignore_patterns # <<>>
       /\ TypeDefect(args.ignore_patterns[1]) \/ ValueDefect(args.ignore_patterns[1])

-----------------------------------------------------------------------------
(* The grade of a total coverage: coverage.py and printers.py *)

MaxNeeded == 12

\* printers.py: _GRADES
_GRADES ==
    << <<"AMAZING! Your docstrings are truly a wonder to behold!", 100>>,
       <<"Excellent", 92>>, <<"Great", 85>>, <<"Very good", 70>>,
       <<"Good", 60>>, <<"Not bad", 40>>, <<"Not good", 25>>,
       <<"Extremely poor", 10>>, <<"Not documented at all", 2>>,
       <<"Do you even docstring?", 0>> >>

\* the counts of a run: found of needed docstrings, for up to MaxNeeded
\* needed docstrings and for the whole percentages
GradedCounts ==
    {[found |-> f, needed |-> n] : f \in 0..MaxNeeded, n \in 1..MaxNeeded}
        \cup {[found |-> f, needed |-> 100] : f \in 0..100}

InitGrade ==
    /\ ResultCollection__init__
    /\ filenames = <<>>
    /\ fs = [p \in Paths |-> Module(None, FALSE, <<>>)]
    /\ analyze_config = DefaultIgnoreConfig
    /\ coverage_flags = [skip_magic |-> FALSE, skip_file_docstring |-> FALSE,
                         skip_init |-> FALSE, skip_class_def |-> FALSE]
    /\ fidx = 1
    /\ pc = "call"
    /\ NoVisitor
    /\ NoCoverage
    /\ args \in {c \in GradedCounts : c.found <= c.needed}
    /\ ret = <<>>

\* the grade of get_docstring_coverage for the total coverage of args
CoverageGrade ==
    /\ pc = "call"
    /\ LET found == next_grade(GRADES, TrueDiv(args.found * 100, args.needed))
       IN /\ ret' = <<"GRADES", found.value>>
          /\ pc' = IF found.raised # None THEN found.raised ELSE "returned"
    /\ UNCHANGED <<rvars, ivars, args, fidx, recorded, vvars, lvars>>

\* the grade of Printer.overall_coverage_stat for count.coverage() of args
PrinterGrade ==
    /\ pc = "call"
    /\ LET found == next_grade(_GRADES, TrueDiv(args.found * 100, args.needed))
       IN /\ ret' = <<"_GRADES", found.value>>
          /\ pc' = IF found.raised # None THEN found.raised ELSE "returned"
    /\ UNCHANGED <<rvars, ivars, args, fidx, recorded, vvars, lvars>>

NextGrade ==
    \/ CoverageGrade
    \/ PrinterGrade

SpecGrade == InitGrade /\ [][NextGrade]_vars

\* the grade table a call has read
TableOf(name) == IF name = "GRADES" THEN GRADES ELSE _GRADES

\* the thresholds of a table descend from 100
Descending(table) ==
    /\ table[1][2] = 100
    /\ \A g \in 1..(Len(table) - 1) : table[g][2] > table[g + 1][2]

\* C20: every total coverage from 0 to 100 gets a grade label, the label of
\* the first entry of the grade table, in descending threshold order, whose
\* threshold is at most the coverage: 100 gets the first label, 0 the last
\* one, and the selection always finds a label.
C20_GradeLabel ==
    pc # "call" =>
        LET table == TableOf(ret[1])
            percent == TrueDiv(args.found * 100, args.needed)
        IN /\ Descending(table)
           /\ pc = "returned"
           /\ \E g \in 1..Len(table) :
                 /\ ret[2] = table[g][1]
                 /\ table[g][2] * args.needed <= args.found * 100
                 /\ \A h \in 1..(g - 1) : table[h][2] * args.needed > args.found * 100
           /\ args.found = args.needed => ret[2] = table[1][1]
           /\ args.found = 0 => ret[2] = table[Len(table)][1]

----------------------------------------------------------------------------
(* C21: the scan of _has_excuse *)

\* the least element of a set of numbers
Min(S) == CHOOSE i \in S : \A j \in S : i <= j

\* the tokens of the file before the first token of the line of the node
TokensAbove(node) == Tokenize(node.lines_above)

\* the first character of the text of a line that is not whitespace
FirstVisible(line) ==
    LET visible == {i \in 1..Len(line) : SubSeq(line, i, i) \notin Whitespace}
    IN IF visible = {} THEN "" ELSE SubSeq(line, Min(visible), Min(visible))

\* a token the scan passes over: a newline token, the keyword class, a token
\* on a line that starts with @
Skippable(token) ==
    \/ token.type \in {"NL", "NEWLINE"}
    \/ token.type = "NAME" /\ token.string = "class"
    \/ FirstVisible(token.line) = "@"

\* the positions of the tokens above the node that the scan does not pass over
Deciding(node) ==
    {i \in 1..Len(TokensAbove(node)) : ~Skippable(TokensAbove(node)[i])}

\* the nodes of the file under analysis that the visitor has seen and that
\* have no docstring of their own: has_doc is the result of _has_excuse
ScannedEntries ==
    IF pc \in {"visit", "file", "module", "nodes", "done"}
    THEN {k \in 1..Len(out) : ~_has_docstring(parsed.nodes[out[k].node])}
    ELSE {}

----------------------------------------------------------------------------
(* C22: the comments accepted as excuses *)

\* the nodes without docstring whose scan is decided by a comment token
CommentDecided ==
    {k \in ScannedEntries :
        LET node == parsed.nodes[out[k].node] IN
        /\ Deciding(node) # {}
        /\ TokensAbove(node)[Max(Deciding(node))].type = "COMMENT"}

\* C22: a comment token counts as an excuse iff its whole text has the
\* inherit form or the excuse form (excuse or excused, optional whitespace,
\* a reason between grave accents): a node without docstring whose scan is
\* decided by a comment is recorded as documented iff that comment has one
\* of the forms from its first to its last character.
C22_ExcuseToken ==
    \A k \in CommentDecided :
        LET node == parsed.nodes[out[k].node]
            comment == TokensAbove(node)[Max(Deciding(node))].string
        IN out[k].has_doc = CorrectlyFormatted(comment)

----------------------------------------------------------------------------
(* C23: _relevant_decorator called on its own *)

MaxDecorators == 3  \* decorators of one definition

\* decorator expressions: the names property and decorator, the attributes
\* x.setter, x.deleter and x.getter, and a call such as lru_cache()
DecoratorExpressions ==
    {Name("property"), Name("decorator"), Attribute("setter"),
     Attribute("deleter"), Attribute("getter"), Call}

\* _relevant_decorator(node) is called for a definition with any decorators
InitDecorator ==
    /\ ResultCollection__init__
    /\ filenames = <<>>
    /\ fs = [p \in Paths |-> Module(None, FALSE, <<>>)]
    /\ analyze_config = DefaultIgnoreConfig
    /\ coverage_flags = [skip_magic |-> FALSE, skip_file_docstring |-> FALSE,
                         skip_init |-> FALSE, skip_class_def |-> FALSE]
    /\ fidx = 1
    /\ pc = "call"
    /\ NoVisitor
    /\ NoCoverage
    /\ \E decorator_list \in
             UNION {[1..n -> DecoratorExpressions] : n \in 0..MaxDecorators} :
          args = [node |-> Node("FunctionDef", "foo", 0, None,
                                DecoratorLines(decorator_list), decorator_list)]
    /\ ret = <<>>

RelevantDecorator ==
    /\ pc = "call"
    /\ ret' = <<_relevant_decorator(args.node)>>
    /\ pc' = "returned"
    /\ UNCHANGED <<rvars, ivars, args, fidx, recorded, vvars, lvars>>

NextDecorator == RelevantDecorator

SpecDecorator == InitDecorator /\ [][NextDecorator]_vars

\* what a single decorator stands for: the plain name property, an attribute
\* access ending in setter or in deleter; anything else is not recognised
ClassOf(decorator) ==
    CASE decorator.node = "Name" /\ decorator.id = "property" -> "@property"
      [] decorator.node = "Attribute" /\ decorator.attr = "setter" -> "@setter"
      [] decorator.node = "Attribute" /\ decorator.attr = "deleter" -> "@deleter"
      [] OTHER -> None

\* the positions of the recognised decorators of the node of the call
RecognisedAt ==
    {d \in 1..Len(args.node.decorator_list) :
        ClassOf(args.node.decorator_list[d]) # None}

\* C23: _relevant_decorator returns one classification: that of the first
\* decorator in declaration order that is the name property or an attribute
\* ending in setter or deleter, and none for a node without decorators or
\* with only other names, other attributes and calls.
C23_FirstRecognisedDecorator ==
    pc = "returned" =>
        /\ Len(ret) = 1
        /\ ret[1] \in {None, "@property", "@setter", "@deleter"}
        /\ ret[1] = IF RecognisedAt = {} THEN None
                    ELSE ClassOf(args.node.decorator_list[Min(RecognisedAt)])

\* an unrecognised decorator, then x.setter, then property: setter decides
C23_Witness ==
    /\ pc = "returned"
    /\ Len(args.node.decorator_list) = 3
    /\ RecognisedAt = {2, 3}
    /\ args.node.decorator_list[2] = Attribute("setter")
    /\ args.node.decorator_list[3] = Name("property")
    /\ ret = <<"@setter">>

----------------------------------------------------------------------------
(* C24: the order of the traversal *)

\* the statements below statement p (0: the module) depth first, each
\* statement before the statements of its body, the statements of one body
\* in source order
RECURSIVE PreOrder(_, _)
PreOrder(module, p) ==
    LET RECURSIVE Each(_)
        Each(i) == IF i > Len(module.nodes) THEN <<>>
                   ELSE (IF module.nodes[i].parent = p
                         THEN <<i>> \o PreOrder(module, i) ELSE <<>>) \o Each(i + 1)
    IN Each(1)

\* the classes and functions among them: the statements _visit_helper sees
HelpersPreOrder(module) ==
    SelectSeq(PreOrder(module, 0), LAMBDA i : module.nodes[i].kind \in HelperKinds)

\* the nearest class or function that encloses statement i (0: none)
RECURSIVE EnclosingHelper(_, _)
EnclosingHelper(module, i) ==
    LET p == module.nodes[i].parent
    IN IF p = 0 THEN 0
       ELSE IF module.nodes[p].kind \in HelperKinds THEN p
       ELSE EnclosingHelper(module, p)

\* the position in out of the tuple made for statement i (0: the module)
EntryOf(i) == IF i = 0 THEN 0 ELSE CHOOSE k \in 1..Len(out) : out[k].node = i

\* the names of the triples of coverage.py's tree, each before its children
RECURSIVE LegacyNamesPreOrder(_)
LegacyNamesPreOrder(triples) ==
    IF triples = <<>> THEN <<>>
    ELSE <<Head(triples)[1]>> \o LegacyNamesPreOrder(Head(triples)[3])
             \o LegacyNamesPreOrder(Tail(triples))

\* the visitor is at work on the file or has finished it
Traversing == pc \in {"visit", "file", "module", "nodes", "done"}
Traversed == pc \in {"file", "module", "nodes", "done"}

----------------------------------------------------------------------------
(* printers.py: the node lists of a file in overall_files_coverage_stat *)

\* the identifiers, or for Ident = FALSE the (identifier, reason) pairs, of
\* the records of expds that satisfy Test, in record order
RECURSIVE select_nodes(_, _, _)
select_nodes(expds, Test(_), Ident) ==
    IF expds = <<>> THEN <<>>
    ELSE (IF Test(Head(expds))
          THEN <<IF Ident THEN Head(expds).node_identifier
                 ELSE <<Head(expds).node_identifier, Head(expds).ignore_reason>> >>
          ELSE <<>>) \o select_nodes(Tail(expds), Test, Ident)

\* verbosity >= 3: nodes_without_docstring
nodes_without_docstring(file_info) ==
    select_nodes(file_info.expected_docstrings,
                 LAMBDA e : ~e.has_docstring /\ ~Truthy(e.ignore_reason), TRUE)

\* verbosity >= 4: nodes_with_docstring
nodes_with_docstring(file_info) ==
    select_nodes(file_info.expected_docstrings,
                 LAMBDA e : e.has_docstring /\ ~Truthy(e.ignore_reason), TRUE)

\* verbosity >= 4: ignored_nodes, as (identifier, reason)
ignored_nodes(file_info) ==
    select_nodes(file_info.expected_docstrings,
                 LAMBDA e : e.ignore_reason # None, FALSE)

\* C25: a record is exempt iff its ignore_reason is not None, for every
\* consumer alike, the empty string included: count_aggregate counts exactly
\* the records that are not exempt, to_legacy lists as missing exactly the
\* undocumented ones among those (the module record aside), the printer
\* lists the exempt records as ignored and the others as with or without
\* docstring, and no record is at once ignored and missing.
C25_ExemptionAgreed ==
    \A p \in {q \in Paths : files[q] # 0} :
        LET file == heap[files[p]]
            expds == file.expected_docstrings
            Exempt(e) == e.ignore_reason # None
            Absent(e) == ~Exempt(e) /\ ~e.has_docstring
            Present(e) == ~Exempt(e) /\ e.has_docstring
            Listed(e) == Absent(e) /\ e.node_identifier # "module docstring"
            count == File_count_aggregate(file)
        IN /\ file.status = "ANALYZED" =>
                 /\ count.needed = Cardinality(Indices(expds, LAMBDA e : ~Exempt(e)))
                 /\ count.missing = Cardinality(Indices(expds, Absent))
           /\ to_legacy.file_results[p].missing = select_nodes(expds, Listed, TRUE)
           /\ nodes_without_docstring(file) = select_nodes(expds, Absent, TRUE)
           /\ nodes_with_docstring(file) = select_nodes(expds, Present, TRUE)
           /\ ignored_nodes(file) = select_nodes(expds, Exempt, FALSE)
           /\ Len(ignored_nodes(file)) + Len(nodes_without_docstring(file))
                  + Len(nodes_with_docstring(file)) = Len(expds)

----------------------------------------------------------------------------
(* The result model with its queries: count_aggregate and to_legacy *)

\* the queries: File.count_aggregate of an instance,
\* ResultCollection.count_aggregate and ResultCollection.to_legacy
Queries ==
    {[call |-> "File.count_aggregate", file |-> f] : f \in 1..Len(heap)}
        \cup {[call |-> "ResultCollection.count_aggregate", file |-> 0],
              [call |-> "ResultCollection.to_legacy", file |-> 0]}

\* mutant of query_result: the result of the last call is kept for the next
\* call of the same query
query_result_cached(q) == IF ret # <<>> /\ args[1] = q THEN ret[1] ELSE IF q.call = "File.count_aggregate" THEN File_count_aggregate(heap[q.file]) ELSE IF q.call = "ResultCollection.count_aggregate" THEN ResultCollection_count_aggregate ELSE to_legacy

\* what the query returns
query_result(q) ==
    CASE q.call = "File.count_aggregate" -> File_count_aggregate(heap[q.file])
      [] q.call = "ResultCollection.count_aggregate" -> ResultCollection_count_aggregate
      [] q.call = "ResultCollection.to_legacy" -> to_legacy

InitQuery ==
    /\ ResultCollection__init__
    /\ filenames = <<>>
    /\ fs = [p \in Paths |-> Module(None, FALSE, <<>>)]
    /\ analyze_config = DefaultIgnoreConfig
    /\ coverage_flags = [skip_magic |-> FALSE, skip_file_docstring |-> FALSE,
                         skip_init |-> FALSE, skip_class_def |-> FALSE]
    /\ fidx = 1
    /\ pc = "idle"
    /\ NoVisitor
    /\ NoCoverage
    /\ args = <<>>
    /\ ret = <<>>

\* a query is called and returns; the methods assign to no attribute of the
\* collection or of a file.  args holds the call, and whether the number of
\* queries so far is odd
Query ==
    \E q \in Queries :
        /\ args' = <<q, args = <<>> \/ ~args[2]>>
        /\ ret' = <<query_result(q)>>
        /\ UNCHANGED <<rvars, ivars, fidx, pc, recorded, vvars, lvars>>

\* file.collect_docstring for a node without ignore reason
QueryCollect ==
    \E f \in 1..Len(heap), identifier \in NodeIdentifiers, has_docstring \in BOOLEAN :
        /\ NumCalls < MaxRecords
        /\ collect_docstring(f, identifier, has_docstring, None)
        /\ UNCHANGED <<files, keys, hit, requested, got, avars>>

NextQuery ==
    \/ GetFile
    \/ QueryCollect
    \/ SetStatus
    \/ Query

SpecQuery == InitQuery /\ [][NextQuery]_vars

\* the counts of a File by its current status and records
CurrentCount(file) ==
    LET Counted(e) == ~Truthy(e.ignore_reason)
        Found(e) == Counted(e) /\ e.has_docstring
        Missing(e) == Counted(e) /\ ~e.has_docstring
        expds == file.expected_docstrings
    IN IF file.status = "EMPTY" THEN [needed |-> 0, found |-> 0, missing |-> 0]
       ELSE [needed |-> Cardinality(Indices(expds, Counted)),
             found |-> Cardinality(Indices(expds, Found)),
             missing |-> Cardinality(Indices(expds, Missing))]

\* the sum of a count over the registered files
CurrentTotal(field) ==
    LET Of(i) == CurrentCount(heap[files[keys[i]]])[field]
    IN SumOver(Of, Len(keys))

\* the result of the last query is what the current records and statuses give
ReflectsCurrent ==
    args # <<>> =>
        LET q == args[1]
            value == ret[1]
        IN CASE q.call = "File.count_aggregate" ->
                   /\ value.needed = CurrentCount(heap[q.file]).needed
                   /\ value.found = CurrentCount(heap[q.file]).found
                   /\ value.missing = CurrentCount(heap[q.file]).missing
                   /\ value.is_empty = (heap[q.file].status = "EMPTY")
             [] q.call = "ResultCollection.count_aggregate" ->
                   /\ value.needed = CurrentTotal("needed")
                   /\ value.found = CurrentTotal("found")
                   /\ value.missing = CurrentTotal("missing")
                   /\ value.num_files = Len(keys)
                   /\ value.num_empty_files =
                         Cardinality({i \in 1..Len(keys) :
                                         heap[files[keys[i]]].status = "EMPTY"})
             [] q.call = "ResultCollection.to_legacy" ->
                   /\ DOMAIN value.file_results = {p \in Paths : files[p] # 0}
                   /\ \A p \in DOMAIN value.file_results :
                         /\ value.file_results[p].needed_count =
                                CurrentCount(heap[files[p]]).needed
                         /\ value.file_results[p].missing_count =
                                CurrentCount(heap[files[p]]).missing
                         /\ value.file_results[p].empty =
                                (heap[files[p]].status = "EMPTY")
                   /\ value.total_results.needed_count = CurrentTotal("needed")
                   /\ value.total_results.missing_count = CurrentTotal("missing")

\* C26: a call of File.count_aggregate, ResultCollection.count_aggregate or
\* to_legacy changes neither the file map nor a record list nor a status,
\* and what it returns is computed from the records and statuses as they
\* are at the call, whatever was returned before a collect_docstring, a
\* status change or a get_file.
C26_QueriesPureUncached ==
    [][args' # args => (rvars' = rvars /\ ReflectsCurrent')]_vars

\* at least two queries were made; the last one counted two records of a.py
\* while b.py is registered and EMPTY
C26_Witness ==
    /\ args # <<>> /\ ~args[2]
    /\ args[1].call = "ResultCollection.count_aggregate"
    /\ ret[1].needed = 2 /\ ret[1].num_files = 2 /\ ret[1].num_empty_files = 1

----------------------------------------------------------------------------
(* ResultCollection.get_file called by several threads *)

MaxThreads == 2     \* threads that share one ResultCollection

Threads == 1..MaxThreads

\* Each thread calls results.get_file(file_path) and reports one record
\* through the File it got.  args[t] holds the locals of thread t: its path,
\* its position in get_file and the File it holds (0: none yet).  A thread
\* switch can take place between the failed lookup, File() and the store
\* into the dict.
InitThreads ==
    /\ ResultCollection__init__
    /\ filenames = <<>>
    /\ fs = [p \in Paths |-> Module(None, FALSE, <<>>)]
    /\ analyze_config = DefaultIgnoreConfig
    /\ coverage_flags = [skip_magic |-> FALSE, skip_file_docstring |-> FALSE,
                         skip_init |-> FALSE, skip_class_def |-> FALSE]
    /\ fidx = 1
    /\ pc = "threads"
    /\ NoVisitor
    /\ NoCoverage
    /\ args \in [Threads -> [file_path : Paths, at : {"try"}, file : {0}]]
    /\ ret = <<>>

\* try: return self._files[file_path]
Lookup(t) ==
    /\ args[t].at = "try"
    /\ IF files[args[t].file_path] # 0
       THEN /\ args' = [args EXCEPT ![t].at = "returned",
                                    ![t].file = files[args[t].file_path]]
            /\ got' = [got EXCEPT ![args[t].file_path] =
                          @ \cup {files[args[t].file_path]}]
            /\ hit' = TRUE
       ELSE /\ args' = [args EXCEPT ![t].at = "except"]
            /\ UNCHANGED <<got, hit>>
    /\ requested' = requested \cup {args[t].file_path}
    /\ UNCHANGED <<files, keys, heap, calls, ivars, ret, fidx, pc, recorded,
                   vvars, lvars>>

\* except KeyError: file = File()
Construct(t) ==
    /\ args[t].at = "except"
    /\ heap' = Append(heap, File)
    /\ calls' = Append(calls, <<>>)
    /\ args' = [args EXCEPT ![t].at = "store", ![t].file = Len(heap) + 1]
    /\ UNCHANGED <<files, keys, hit, requested, got, ivars, ret, fidx, pc,
                   recorded, vvars, lvars>>

\* self._files[file_path] = file; return file
Store(t) ==
    /\ args[t].at = "store"
    /\ files' = [files EXCEPT ![args[t].file_path] = args[t].file]
    /\ keys' = IF files[args[t].file_path] # 0 THEN keys
               ELSE Append(keys, args[t].file_path)
    /\ got' = [got EXCEPT ![args[t].file_path] = @ \cup {args[t].file}]
    /\ args' = [args EXCEPT ![t].at = "returned"]
    /\ UNCHANGED <<heap, calls, hit, requested, ivars, ret, fidx, pc, recorded,
                   vvars, lvars>>

\* the thread reports a record through the File it got
Report(t) ==
    /\ args[t].at = "returned"
    /\ \E has_docstring \in BOOLEAN :
          collect_docstring(args[t].file, "foo", has_docstring, None)
    /\ args' = [args EXCEPT ![t].at = "done"]
    /\ UNCHANGED <<files, keys, hit, requested, got, ivars, ret, fidx, pc,
                   recorded, vvars, lvars>>

NextThreads ==
    \E t \in Threads : Lookup(t) \/ Construct(t) \/ Store(t) \/ Report(t)

SpecThreads == InitThreads /\ [][NextThreads]_vars

\* the threads that have reported their record for path p
Reported(p) == {t \in Threads : args[t].file_path = p /\ args[t].at = "done"}

\* C27: under every interleaving of the threads, get_file returns one and
\* the same File instance for a path, each thread holds the registered File
\* of its path, and the registered File has the record of every thread that
\* reported for the path.
C27_OneFilePerPath ==
    \A p \in Paths :
        /\ Cardinality(got[p]) <= 1
        /\ \A t \in Threads :
              args[t].file_path = p /\ args[t].at \in {"returned", "done"} =>
                  args[t].file = files[p]
        /\ files[p] # 0 =>
              Len(heap[files[p]].expected_docstrings) = Cardinality(Reported(p))

----------------------------------------------------------------------------
(* C28: the counts are consistent *)

\* C28: whatever was recorded, every count of a File and the count of the
\* collection have needed = found + missing with none of them negative, and
\* the count of the collection has 0 <= num_empty_files <= num_files, where
\* num_files is the number of registered files.
C28_CountsConsistent ==
    LET total == ResultCollection_count_aggregate
        Consistent(count) == /\ count.needed = count.found + count.missing
                             /\ count.needed >= 0
                             /\ count.found >= 0
                             /\ count.missing >= 0
    IN /\ \A f \in Instances : Consistent(File_count_aggregate(heap[f]))
       /\ Consistent(total)
       /\ 0 <= total.num_empty_files
       /\ total.num_empty_files <= total.num_files
       /\ total.num_files = Cardinality({p \in Paths : files[p] # 0})

\* two registered files, one of them EMPTY, the other with one docstring
\* found and one missing
C28_Witness ==
    LET total == ResultCollection_count_aggregate
    IN /\ total.num_files = 2 /\ total.num_empty_files = 1
       /\ total.found = 1 /\ total.missing = 1 /\ total.needed = 2
       /\ \E f \in Instances : File_count_aggregate(heap[f]).needed = 2

----------------------------------------------------------------------------
(* C29: the overall counts and the counts per file *)

\* the sum of a field over the entries of a per-file dictionary
RECURSIVE SumOfEntries(_, _, _)
SumOfEntries(results, paths, field) ==
    IF paths = {} THEN 0
    ELSE LET p == CHOOSE q \in paths : TRUE
         IN results[p][field] + SumOfEntries(results, paths \ {p}, field)

\* C29: in the pair returned by get_docstring_coverage the overall
\* needed_count is the sum of needed_count over the entries of the per-file
\* dictionary, and the overall missing_count the sum of missing_count, for
\* every list of files, one that names a path twice included.
C29_TotalsAreSums ==
    pc = "returned" =>
        /\ total_results.needed_count =
               SumOfEntries(file_results, DOMAIN file_results, "needed_count")
        /\ total_results.missing_count =
               SumOfEntries(file_results, DOMAIN file_results, "missing_count")

----------------------------------------------------------------------------
(* C30: the identifiers of the nodes *)

\* the identifier of statement i of a file: its name behind the name of the
\* class or function directly around it and a dot, its bare name in the module
IdentifierOf(module, i) ==
    IF EnclosingHelper(module, i) = 0 THEN module.nodes[i].name
    ELSE module.nodes[EnclosingHelper(module, i)].name \o "." \o module.nodes[i].name

\* the classes and functions of a file that are reported as missing: without
\* docstring and not exempted by a flag, in traversal order
ReportedMissing(module) ==
    SelectSeq(HelpersPreOrder(module),
              LAMBDA i : ~RealDocstring(module.nodes[i]) /\ ~Exempted(module.nodes[i]))

====
